---- MODULE Spec2Model ----
(***************************************************************************)
(* bom-pack: the nesting engines of noazark/bom-pack as one state machine. *)
(*                                                                         *)
(* One run is one call of nest(shapes) on a nester built from a config, or *)
(* one call of process_parts on a BOM.                                     *)
(* `engine` says which nester the run is of:                               *)
(*   "guillotine"  SimpleNester   (src/nester.py)                          *)
(*   "skyline"     SkylineNester  (src/nesters/skyline.py)                 *)
(*   "genetic"     GeneticNester  (src/nesters/genetic.py), the decoder    *)
(*                 create_bins_from_solution and calculate_fitness         *)
(*   "optimizer"   GeneticNester.nest, the generations and the pool        *)
(*   "rect"        RectNester     (src/nesters/rect.py)                    *)
(*   "grid"        SimpleNester   (src/nesters/simple.py)                  *)
(*   "pipeline"    RectNester     (src/src/bom_packer/nesters/rect.py),    *)
(*                 as nest_shapes of core.py calls it                      *)
(*   "batch"       process_parts  (src/src/bom_packer/core.py)             *)
(* Lengths are integers; Python's 0-based indices are kept as values and   *)
(* turned into 1-based positions only where a sequence is read.            *)
(***************************************************************************)
EXTENDS Integers, Sequences, FiniteSets, TLC

VARIABLES
    engine,         \* which nester this run is of
    config,         \* self.config plus self.default_bin_size (bin_width, bin_height)
    shapes,         \* the argument of nest: a sequence of Rectangle
    pc,             \* "ready" | "packing" | "done" | "raised"
    sorted_shapes,  \* nest's local: the (index, shape) pairs still to pack
    shape_index,    \* guillotine: the loop counter of `for shape_index, shape in enumerate(...)`
    spaces,         \* guillotine: per bin, the list of free spaces
    placements,     \* guillotine: the flat placement list, x offset by bin_index * bin_width
    bins,           \* the bins built so far / returned
    solution,       \* genetic: the genome handed to create_bins_from_solution
    gene_pos,       \* genetic: how many genes of solution the decoder's loop has done
    fitness,        \* genetic: calculate_fitness's result as <<used_area, total_area>>
    error,          \* the exception that ended nest, "" when none
    first_result,   \* what an earlier call of nest on this input returned, None before
    population,     \* GeneticNester.nest: the current generation's genomes
    tasks,          \* GeneticNester.nest: calculate_fitness tasks handed to the pool, not yet returned
    results,        \* GeneticNester.nest: what the pool's workers have returned, None where not yet
    fitness_scores, \* GeneticNester.nest: the list pool.map returned for population
    current_best_fitness, \* GeneticNester.nest: current_best, max(fitness_scores) of the generation last scored
    best_solution,  \* GeneticNester.nest: None, or the best genome seen
    best_fitness,   \* GeneticNester.nest: its fitness as <<used_area, total_area>>
    best_bin_count, \* GeneticNester.nest: its bin count, None for float("inf")
    new_population, \* GeneticNester.nest: the next generation being bred
    generation,     \* GeneticNester.nest: the loop counter of `for generation in range(...)`
    packer,         \* RectNester.nest: the bins of rectangles the rectpack packer holds after pack()
    abin_index,     \* RectNester.nest: how many bins of `for abin in packer` are done
    unpacked_shapes,\* RectNester.nest: None, or the set logged as "Unpacked shapes"
    parts,          \* process_parts: the BOM, a sequence of parts
    margin,         \* process_parts: the margin argument
    part_index,     \* process_parts: how many parts of `for part in parts` are done
    all_shapes,     \* process_parts: the shapes collected so far
    error_summary   \* process_parts: the four lists of failures

\* the locals of GeneticNester.nest
optimizer_vars == <<population, tasks, results, fitness_scores, current_best_fitness,
                    best_solution, best_fitness, best_bin_count, new_population,
                    generation>>

\* the locals of RectNester.nest
adapter_vars == <<packer, abin_index, unpacked_shapes>>

\* the arguments and locals of process_parts
batch_vars == <<parts, margin, part_index, all_shapes, error_summary>>

outer_vars == <<adapter_vars, batch_vars>>

\* what a step of one of the three packers above does not touch
other_vars == <<first_result, optimizer_vars, outer_vars>>

vars == <<engine, config, shapes, pc, sorted_shapes, shape_index, spaces,
          placements, bins, solution, gene_pos, fitness, error, other_vars>>

----------------------------------------------------------------------------
(* Bounds of the model *)

\* the longest shape list handed to nest
MaxShapes == 3

\* the sheet: 3 wide, 2 high, so that flipping matters and 3x3 fits in no orientation
BinWidths == {3}

BinHeights == {2}

\* the largest look_ahead of the skyline nester
MaxLookAhead == 1

\* rotation_steps of the valid runs: the rotation loop runs twice (0 and 180 degrees)
RotationSteps == {2}

SortMethods == {"area", "height", "width", "perimeter"}

GuillotineStrategies == {"bottom_left", "best_short_side", "best_long_side"}

\* "best_fit" and one value that takes calculate_placement_score's else branch
SkylineStrategies == {"best_fit", "bottom_left"}

BoundedSeq(S, n) ==
    UNION {[1..k -> S] : k \in 0..n}

----------------------------------------------------------------------------
(* shapes.py *)

Rectangle(w, h) ==
    [width |-> w, height |-> h]

\* Placement(x, y, width, height, rotation); shape_index is set later by nest
Placement(x, y, w, h, r) ==
    [x |-> x, y |-> y, width |-> w, height |-> h, rotation |-> r]

\* placement.shape_index = i
WithShapeIndex(p, i) ==
    [x |-> p.x, y |-> p.y, width |-> p.width, height |-> p.height,
     rotation |-> p.rotation, shape_index |-> i]

\* Bin(width, height); skyline is the attribute SkylineNester adds
Bin(w, h) ==
    [width |-> w, height |-> h, placements |-> <<>>, skyline |-> <<>>]

\* Python's None / an object, as a sequence of length 0 / 1
None == <<>>

Some(v) == <<v>>

----------------------------------------------------------------------------
(* sort_shapes: sorted(..., key=..., reverse=True), stable *)

SortKey(s, method) ==
    CASE method = "area" -> s.width * s.height
      [] method = "height" -> s.height
      [] method = "width" -> s.width
      [] method = "perimeter" -> s.width + s.height

\* e put behind every element of the descending list whose key is >= e's key
RECURSIVE InsertDesc(_, _, _)

\* e put before the elements of equal key: descending, but ties in reverse input order
InsertDesc_before_equal(sorted, e, method) ==
    IF sorted = <<>> THEN <<e>>
    ELSE IF SortKey(Head(sorted), method) > SortKey(e, method)
         THEN <<Head(sorted)>> \o InsertDesc(Tail(sorted), e, method)
         ELSE <<e>> \o sorted

InsertDesc(sorted, e, method) ==
    IF sorted = <<>> THEN <<e>>
    ELSE IF SortKey(Head(sorted), method) >= SortKey(e, method)
         THEN <<Head(sorted)>> \o InsertDesc(Tail(sorted), e, method)
         ELSE <<e>> \o sorted

RECURSIVE sort_shapes(_, _)
sort_shapes(seq, method) ==
    IF seq = <<>> THEN <<>>
    ELSE InsertDesc(sort_shapes(SubSeq(seq, 1, Len(seq) - 1), method),
                    seq[Len(seq)], method)

\* enumerate counting from 1
Enumerate_from_one(seq) ==
    [k \in 1..Len(seq) |->
        [index |-> k, width |-> seq[k].width, height |-> seq[k].height]]

\* list(enumerate(shapes))
Enumerate(seq) ==
    [k \in 1..Len(seq) |->
        [index |-> k - 1, width |-> seq[k].width, height |-> seq[k].height]]

----------------------------------------------------------------------------
(* the rotation / flip loops shared by the nesters *)

\* r * (360 / rotation_steps)
RotationAngle(r, steps) ==
    (r * 360) \div steps

\* flips that ignore allow_flip
Flips_never(cfg) ==
    <<FALSE>>

Flips(cfg) ==
    IF cfg.allow_flip THEN <<FALSE, TRUE>> ELSE <<FALSE>>

\* orientations visited in the opposite order once nest has run before
Orientations_by_run(cfg) ==
    LET nf == Len(Flips(cfg))
        n == cfg.rotation_steps * nf
    IN  [k \in 1..n |->
            LET j == IF first_result = None THEN k ELSE n + 1 - k
            IN  [rotation |-> RotationAngle((j - 1) \div nf, cfg.rotation_steps),
                 flip |-> Flips(cfg)[((j - 1) % nf) + 1]]]

\* the (rotation, flip) pairs in the order the two nested loops visit them
Orientations(cfg) ==
    LET nf == Len(Flips(cfg))
    IN  [k \in 1..(cfg.rotation_steps * nf) |->
            [rotation |-> RotationAngle((k - 1) \div nf, cfg.rotation_steps),
             flip |-> Flips(cfg)[((k - 1) % nf) + 1]]]

OrientedWidth(shape, flip) ==
    IF flip THEN shape.height ELSE shape.width

OrientedHeight(shape, flip) ==
    IF flip THEN shape.width ELSE shape.height

----------------------------------------------------------------------------
(* src/nester.py: SimpleNester, the guillotine packer *)

\* is_better_placement with <= and >= for < and >: of equal candidates the later wins
is_better_placement_ties(new_placement, current_best, cfg) ==
    IF current_best = None THEN TRUE
    ELSE LET cur == current_best[1]
         IN  CASE cfg.placement_strategy = "bottom_left" ->
                    \/ new_placement.y < cur.y
                    \/ (new_placement.y = cur.y /\ new_placement.x <= cur.x)
               [] cfg.placement_strategy = "best_short_side" ->
                    LET new_short == IF new_placement.width <= new_placement.height
                                     THEN new_placement.width ELSE new_placement.height
                        cur_short == IF cur.width <= cur.height
                                     THEN cur.width ELSE cur.height
                    IN  new_short >= cur_short
               [] cfg.placement_strategy = "best_long_side" ->
                    LET new_long == IF new_placement.width >= new_placement.height
                                    THEN new_placement.width ELSE new_placement.height
                        cur_long == IF cur.width >= cur.height
                                    THEN cur.width ELSE cur.height
                    IN  new_long >= cur_long
               [] OTHER -> FALSE

is_better_placement(new_placement, current_best, cfg) ==
    IF current_best = None THEN TRUE
    ELSE LET cur == current_best[1]
         IN  CASE cfg.placement_strategy = "bottom_left" ->
                    \/ new_placement.y < cur.y
                    \/ (new_placement.y = cur.y /\ new_placement.x < cur.x)
               [] cfg.placement_strategy = "best_short_side" ->
                    LET new_short == IF new_placement.width <= new_placement.height
                                     THEN new_placement.width ELSE new_placement.height
                        cur_short == IF cur.width <= cur.height
                                     THEN cur.width ELSE cur.height
                    IN  new_short > cur_short
               [] cfg.placement_strategy = "best_long_side" ->
                    LET new_long == IF new_placement.width >= new_placement.height
                                    THEN new_placement.width ELSE new_placement.height
                        cur_long == IF cur.width >= cur.height
                                    THEN cur.width ELSE cur.height
                    IN  new_long > cur_long
               [] OTHER -> FALSE

\* the loop body of find_best_placement over the orientations os, best so far given
RECURSIVE FindBestFrom(_, _, _, _, _)
FindBestFrom(shape, space, cfg, os, best) ==
    IF os = <<>> THEN best
    ELSE LET o == Head(os)
             width == OrientedWidth(shape, o.flip)
             height == OrientedHeight(shape, o.flip)
             placement == Placement(space.x, space.y, width, height, o.rotation)
         IN  IF /\ width <= space.width
                /\ height <= space.height
                /\ is_better_placement(placement, best, cfg)
             THEN FindBestFrom(shape, space, cfg, Tail(os), Some(placement))
             ELSE FindBestFrom(shape, space, cfg, Tail(os), best)

find_best_placement(shape, space, cfg) ==
    FindBestFrom(shape, space, cfg, Orientations(cfg), None)

\* the (bin_index, i) pairs of nest's two nested loops over spaces, in order
RECURSIVE SpaceSlots(_, _)
SpaceSlots(sp, b) ==
    IF b > Len(sp) THEN <<>>
    ELSE [i \in 1..Len(sp[b]) |-> [bin_index |-> b - 1, space_index |-> i - 1]]
         \o SpaceSlots(sp, b + 1)

\* nest lines 59-71: the best placement over every free space of every bin
RECURSIVE SearchFrom(_, _, _, _, _)
SearchFrom(shape, sp, cfg, slots, best) ==
    IF slots = <<>> THEN best
    ELSE LET s == Head(slots)
             placement == find_best_placement(
                              shape, sp[s.bin_index + 1][s.space_index + 1], cfg)
             cur == IF best = None THEN None ELSE Some(best[1].placement)
         IN  IF placement # None /\ is_better_placement(placement[1], cur, cfg)
             THEN SearchFrom(shape, sp, cfg, Tail(slots),
                             Some([placement |-> placement[1],
                                   space_index |-> s.space_index,
                                   bin_index |-> s.bin_index]))
             ELSE SearchFrom(shape, sp, cfg, Tail(slots), best)

SearchSpaces(shape, sp, cfg) ==
    SearchFrom(shape, sp, cfg, SpaceSlots(sp, 1), None)

\* the sort key of update_spaces: (-width * height, y, x), compared as tuples
SpaceKeyLeq(a, b) ==
    LET ka == 0 - a.width * a.height
        kb == 0 - b.width * b.height
    IN  \/ ka < kb
        \/ ka = kb /\ a.y < b.y
        \/ ka = kb /\ a.y = b.y /\ a.x <= b.x

RECURSIVE InsertSpace(_, _)
InsertSpace(sorted, e) ==
    IF sorted = <<>> THEN <<e>>
    ELSE IF SpaceKeyLeq(Head(sorted), e)
         THEN <<Head(sorted)>> \o InsertSpace(Tail(sorted), e)
         ELSE <<e>> \o sorted

RECURSIVE SortSpaces(_)
SortSpaces(seq) ==
    IF seq = <<>> THEN <<>>
    ELSE InsertSpace(SortSpaces(SubSeq(seq, 1, Len(seq) - 1)), seq[Len(seq)])

RemoveAt(seq, k) ==
    SubSeq(seq, 1, k - 1) \o SubSeq(seq, k + 1, Len(seq))

\* update_spaces that reads the used space without popping it from the list
update_spaces_no_pop(bin_spaces, used_space_index, placement) ==
    LET used_space == bin_spaces[used_space_index + 1]
        right == IF used_space.x + placement.width < used_space.x + used_space.width
                 THEN <<Placement(used_space.x + placement.width,
                                  used_space.y,
                                  used_space.width - placement.width,
                                  placement.height,
                                  0)>>
                 ELSE <<>>
        top == IF used_space.y + placement.height < used_space.y + used_space.height
               THEN <<Placement(used_space.x,
                                used_space.y + placement.height,
                                placement.width,
                                used_space.height - placement.height,
                                0)>>
               ELSE <<>>
    IN  SortSpaces(bin_spaces \o right \o top)

\* update_spaces whose right space is as high and whose top space as wide as the
\* used space: the two share the corner
update_spaces_full_leftovers(bin_spaces, used_space_index, placement) ==
    LET used_space == bin_spaces[used_space_index + 1]
        popped == RemoveAt(bin_spaces, used_space_index + 1)
        right == IF used_space.x + placement.width < used_space.x + used_space.width
                 THEN <<Placement(used_space.x + placement.width,
                                  used_space.y,
                                  used_space.width - placement.width,
                                  used_space.height,
                                  0)>>
                 ELSE <<>>
        top == IF used_space.y + placement.height < used_space.y + used_space.height
               THEN <<Placement(used_space.x,
                                used_space.y + placement.height,
                                used_space.width,
                                used_space.height - placement.height,
                                0)>>
               ELSE <<>>
    IN  SortSpaces(popped \o right \o top)

\* update_spaces whose top space spans the used space's whole width
update_spaces_wide_top(bin_spaces, used_space_index, placement) ==
    LET used_space == bin_spaces[used_space_index + 1]
        popped == RemoveAt(bin_spaces, used_space_index + 1)
        right == IF used_space.x + placement.width < used_space.x + used_space.width
                 THEN <<Placement(used_space.x + placement.width,
                                  used_space.y,
                                  used_space.width - placement.width,
                                  placement.height,
                                  0)>>
                 ELSE <<>>
        top == IF used_space.y + placement.height < used_space.y + used_space.height
               THEN <<Placement(used_space.x,
                                used_space.y + placement.height,
                                used_space.width,
                                used_space.height - placement.height,
                                0)>>
               ELSE <<>>
    IN  SortSpaces(popped \o right \o top)

\* update_spaces(spaces, used_space_index, placement): the bin's new space list
update_spaces(bin_spaces, used_space_index, placement) ==
    LET used_space == bin_spaces[used_space_index + 1]
        popped == RemoveAt(bin_spaces, used_space_index + 1)
        right == IF used_space.x + placement.width < used_space.x + used_space.width
                 THEN <<Placement(used_space.x + placement.width,
                                  used_space.y,
                                  used_space.width - placement.width,
                                  placement.height,
                                  0)>>
                 ELSE <<>>
        top == IF used_space.y + placement.height < used_space.y + used_space.height
               THEN <<Placement(used_space.x,
                                used_space.y + placement.height,
                                placement.width,
                                used_space.height - placement.height,
                                0)>>
               ELSE <<>>
    IN  SortSpaces(popped \o right \o top)

\* bins after `while len(bins) <= bin_index: bins.append(Bin(...))`
RECURSIVE PadBins(_, _, _)
PadBins(bs, bin_index, cfg) ==
    IF Len(bs) <= bin_index
    THEN PadBins(Append(bs, Bin(cfg.bin_width, cfg.bin_height)), bin_index, cfg)
    ELSE bs

RECURSIVE create_bins(_, _)

\* create_bins without `placement.x %= bin_width`: x stays offset by the bin
create_bins_keep_x(ps, cfg) ==
    IF ps = <<>> THEN <<>>
    ELSE LET before == create_bins(SubSeq(ps, 1, Len(ps) - 1), cfg)
             placement == ps[Len(ps)]
             bin_index == placement.x \div cfg.bin_width
             padded == PadBins(before, bin_index, cfg)
         IN  [padded EXCEPT ![bin_index + 1].placements = Append(@, placement)]

\* create_bins(placements); only evaluated with bin_width # 0
create_bins(ps, cfg) ==
    IF ps = <<>> THEN <<>>
    ELSE LET before == create_bins(SubSeq(ps, 1, Len(ps) - 1), cfg)
             placement == ps[Len(ps)]
             bin_index == placement.x \div cfg.bin_width
             padded == PadBins(before, bin_index, cfg)
             local == [placement EXCEPT !.x = placement.x % cfg.bin_width]
         IN  [padded EXCEPT ![bin_index + 1].placements = Append(@, local)]

FullSpace(cfg) ==
    Placement(0, 0, cfg.bin_width, cfg.bin_height, 0)

\* the placement committed without `best_placement.x += best_bin_index * bin_width`
Committed_without_offset(placement, index, bin_index, cfg) ==
    WithShapeIndex(placement, index)

\* the placement as nest commits it: shape_index set, x offset by the bin
Committed(placement, index, bin_index, cfg) ==
    [WithShapeIndex(placement, index) EXCEPT !.x = @ + bin_index * cfg.bin_width]

----------------------------------------------------------------------------
(* src/nesters/skyline.py: SkylineNester *)

SkylineNode(x, y, w) ==
    [x |-> x, y |-> y, width |-> w]

Max(a, b) ==
    IF a >= b THEN a ELSE b

Min(a, b) ==
    IF a <= b THEN a ELSE b

\* find_min_y's while loop; i is 0-based, as in the source
RECURSIVE FindMinYFrom(_, _, _, _)
FindMinYFrom(skyline, i, width_left, min_y) ==
    IF width_left > 0
    THEN LET m == Max(min_y, skyline[i + 1].y)
         IN  IF i + 1 >= Len(skyline) THEN m
             ELSE FindMinYFrom(skyline, i + 1, width_left - skyline[i + 1].width, m)
    ELSE min_y

find_min_y(skyline, index, width) ==
    FindMinYFrom(skyline, index, width, skyline[index + 1].y)

\* the sum of lines 160-167: the horizontal overlap with every skyline node
RECURSIVE TouchingNodes(_, _)
TouchingNodes(skyline, placement) ==
    IF skyline = <<>> THEN 0
    ELSE LET node == Head(skyline)
         IN  (IF /\ node.x < placement.x + placement.width
                 /\ node.x + node.width > placement.x
              THEN Min(node.x + node.width, placement.x + placement.width)
                   - Max(node.x, placement.x)
              ELSE 0)
             + TouchingNodes(Tail(skyline), placement)

calculate_placement_score(placement, bin, cfg) ==
    IF cfg.placement_strategy = "best_fit"
    THEN 0 - ( (IF placement.x = 0 THEN placement.height ELSE 0)
             + (IF placement.x + placement.width = bin.width
                THEN placement.height ELSE 0)
             + (IF placement.y = 0 THEN placement.width ELSE 0)
             + TouchingNodes(bin.skyline, placement) )
    ELSE (placement.y - bin.skyline[1].y) * placement.width

\* merge_skyline's loop: node after node onto the end of merged
RECURSIVE MergeInto(_, _)
MergeInto(merged, rest) ==
    IF rest = <<>> THEN merged
    ELSE LET last == merged[Len(merged)]
             node == Head(rest)
         IN  IF last.y = node.y
             THEN MergeInto([merged EXCEPT ![Len(merged)].width = @ + node.width],
                            Tail(rest))
             ELSE MergeInto(Append(merged, node), Tail(rest))

\* merge_skyline that merges nothing
merge_skyline_nothing(skyline) ==
    skyline

merge_skyline(skyline) ==
    IF skyline = <<>> THEN skyline
    ELSE MergeInto(<<Head(skyline)>>, Tail(skyline))

\* lines 181-183: how many leading nodes start left of the placement
RECURSIVE NodesBefore(_, _, _)
NodesBefore(skyline, placement, i) ==
    IF i < Len(skyline) /\ skyline[i + 1].x < placement.x
    THEN NodesBefore(skyline, placement, i + 1)
    ELSE i

\* lines 192-201: the nodes from position i on, kept, clipped or dropped
RECURSIVE NodesAfter(_, _, _)

\* a node the placement covers in part is dropped instead of clipped
NodesAfter_drop_clipped(skyline, placement, i) ==
    IF i >= Len(skyline) THEN <<>>
    ELSE LET node == skyline[i + 1]
             right == placement.x + placement.width
         IN  (IF node.x >= right THEN <<node>> ELSE <<>>)
             \o NodesAfter(skyline, placement, i + 1)

NodesAfter(skyline, placement, i) ==
    IF i >= Len(skyline) THEN <<>>
    ELSE LET node == skyline[i + 1]
             right == placement.x + placement.width
         IN  (IF node.x >= right THEN <<node>>
              ELSE IF node.x + node.width > right
                   THEN <<SkylineNode(right, node.y, node.x + node.width - right)>>
                   ELSE <<>>)
             \o NodesAfter(skyline, placement, i + 1)

\* update_skyline with the new node at the placement's bottom, not its top
update_skyline_flat(skyline, placement) ==
    LET i == NodesBefore(skyline, placement, 0)
        new_node == SkylineNode(placement.x, placement.y, placement.width)
    IN  merge_skyline(SubSeq(skyline, 1, i) \o <<new_node>>
                      \o NodesAfter(skyline, placement, i))

\* update_skyline(bin, placement): the bin's new skyline
update_skyline(skyline, placement) ==
    LET i == NodesBefore(skyline, placement, 0)
        new_node == SkylineNode(placement.x, placement.y + placement.height,
                                placement.width)
    IN  merge_skyline(SubSeq(skyline, 1, i) \o <<new_node>>
                      \o NodesAfter(skyline, placement, i))

\* lines 81-89 / 133-141: the feasible placements of one orientation, node by node
RECURSIVE NodeCandidates(_, _, _, _)
NodeCandidates(shape, bin, o, i) ==
    IF i >= Len(bin.skyline) THEN <<>>
    ELSE LET node == bin.skyline[i + 1]
             width == OrientedWidth(shape, o.flip)
             height == OrientedHeight(shape, o.flip)
             y == find_min_y(bin.skyline, i, width)
         IN  (IF width > node.width THEN <<>>
              ELSE IF y + height > bin.height THEN <<>>
                   ELSE <<Placement(node.x, y, width, height, o.rotation)>>)
             \o NodeCandidates(shape, bin, o, i + 1)

\* the candidate placements in the order the three nested loops make them
RECURSIVE SkylineCandidates(_, _, _)
SkylineCandidates(shape, bin, os) ==
    IF os = <<>> THEN <<>>
    ELSE NodeCandidates(shape, bin, Head(os), 0)
         \o SkylineCandidates(shape, bin, Tail(os))

\* lines 142-145: keep the first candidate of the lowest score
RECURSIVE BestInBinFrom(_, _, _, _)
BestInBinFrom(cands, bin, cfg, best) ==
    IF cands = <<>> THEN best
    ELSE LET score == calculate_placement_score(Head(cands), bin, cfg)
         IN  IF best = None \/ score < best[1].score
             THEN BestInBinFrom(Tail(cands), bin, cfg,
                                Some([placement |-> Head(cands), score |-> score]))
             ELSE BestInBinFrom(Tail(cands), bin, cfg, best)

find_best_placement_in_bin(shape, bin, cfg) ==
    LET best == BestInBinFrom(SkylineCandidates(shape, bin, Orientations(cfg)),
                              bin, cfg, None)
    IN  IF best = None THEN None ELSE Some(best[1].placement)

\* lines 97-110: what the look-ahead shapes add to the score, on the copied bin
RECURSIVE LookAheadScore(_, _, _)
LookAheadScore(temp_bin, look_ahead_shapes, cfg) ==
    IF look_ahead_shapes = <<>> THEN 0
    ELSE LET look_ahead_placement ==
                 find_best_placement_in_bin(Head(look_ahead_shapes), temp_bin, cfg)
         IN  IF look_ahead_placement # None
             THEN calculate_placement_score(look_ahead_placement[1], temp_bin, cfg)
                  + LookAheadScore(
                        [temp_bin EXCEPT !.skyline =
                            update_skyline(@, look_ahead_placement[1])],
                        Tail(look_ahead_shapes), cfg)
             ELSE cfg.bin_width * cfg.bin_height
                  + LookAheadScore(temp_bin, Tail(look_ahead_shapes), cfg)

\* lines 90-110: a candidate's score, its own plus the look-ahead's
CandidateScore(placement, bin, look_ahead_shapes, cfg) ==
    LET temp_bin == [bin EXCEPT !.placements = Append(@, placement),
                                !.skyline = update_skyline(@, placement)]
    IN  calculate_placement_score(placement, bin, cfg)
        + LookAheadScore(temp_bin, look_ahead_shapes, cfg)

\* lines 112-114: keep the first candidate of the lowest combined score
RECURSIVE BestWithLookaheadFrom(_, _, _, _, _)
BestWithLookaheadFrom(cands, bin, look_ahead_shapes, cfg, best) ==
    IF cands = <<>> THEN best
    ELSE LET score == CandidateScore(Head(cands), bin, look_ahead_shapes, cfg)
         IN  IF best = None \/ score < best[1].score
             THEN BestWithLookaheadFrom(Tail(cands), bin, look_ahead_shapes, cfg,
                      Some([placement |-> Head(cands), score |-> score]))
             ELSE BestWithLookaheadFrom(Tail(cands), bin, look_ahead_shapes, cfg, best)

find_best_placement_with_lookahead(shape, bin, look_ahead_shapes, cfg) ==
    LET best == BestWithLookaheadFrom(
                    SkylineCandidates(shape, bin, Orientations(cfg)),
                    bin, look_ahead_shapes, cfg, None)
    IN  IF best = None THEN None ELSE Some(best[1].placement)

\* nest lines 37-46: the first bin, in order, that offers a placement
RECURSIVE FirstBinFrom(_, _, _, _, _)
FirstBinFrom(shape, bs, look_ahead_shapes, cfg, b) ==
    IF b >= Len(bs) THEN None
    ELSE LET placement == find_best_placement_with_lookahead(
                              shape, bs[b + 1], look_ahead_shapes, cfg)
         IN  IF placement # None
             THEN Some([bin_index |-> b, placement |-> placement[1]])
             ELSE FirstBinFrom(shape, bs, look_ahead_shapes, cfg, b + 1)

\* line 49-50: Bin(...) with skyline = [SkylineNode(0, 0, new_bin.width)]
NewSkylineBin(cfg) ==
    [Bin(cfg.bin_width, cfg.bin_height) EXCEPT
        !.skyline = <<SkylineNode(0, 0, cfg.bin_width)>>]

\* lines 42-44 / 55-57: the bin with the placement appended and the skyline updated
CommitToBin(bin, placement, index) ==
    [bin EXCEPT !.placements = Append(@, WithShapeIndex(placement, index)),
                !.skyline = update_skyline(@, placement)]

\* sorted_shapes[: look_ahead]
Prefix(seq, n) ==
    SubSeq(seq, 1, Min(n, Len(seq)))

----------------------------------------------------------------------------
(* src/nesters/genetic.py: GeneticNester's decoder and fitness *)

Gene(shape_index_, rotation, flip) ==
    [shape_index |-> shape_index_, rotation |-> rotation, flip |-> flip]

overlaps(a, b) ==
    /\ a.x < b.x + b.width
    /\ a.x + a.width > b.x
    /\ a.y < b.y + b.height
    /\ a.y + a.height > b.y

is_valid_placement(bin, placement) ==
    /\ ~ \/ placement.x + placement.width > bin.width
         \/ placement.y + placement.height > bin.height
    /\ \A k \in 1..Len(bin.placements) : ~overlaps(placement, bin.placements[k])

\* range(0, int(limit), max(1, int(size / 2))) as a sequence
GridRange(limit, size) ==
    LET step == Max(1, size \div 2)
        count == IF limit <= 0 THEN 0 ELSE ((limit - 1) \div step) + 1
    IN  [k \in 1..count |-> (k - 1) * step]

\* lines 167-175: the first valid grid position, y outer loop, x inner loop
RECURSIVE FirstValidFrom(_, _, _, _, _, _, _)
FirstValidFrom(width, height, rotation, bin, ys, xs, k) ==
    IF k > Len(ys) * Len(xs) THEN None
    ELSE LET y == ys[((k - 1) \div Len(xs)) + 1]
             x == xs[((k - 1) % Len(xs)) + 1]
             placement == Placement(x, y, width, height, rotation)
         IN  IF is_valid_placement(bin, placement) THEN Some(placement)
             ELSE FirstValidFrom(width, height, rotation, bin, ys, xs, k + 1)

\* GeneticNester.find_best_placement_in_bin(width, height, rotation, bin)
genetic_find_best_placement_in_bin(width, height, rotation, bin) ==
    FirstValidFrom(width, height, rotation, bin,
                   GridRange(bin.height, height), GridRange(bin.width, width), 1)

\* lines 141-149: the first bin, in order, with a valid grid position
RECURSIVE FirstAcceptingBin(_, _, _, _, _)
FirstAcceptingBin(width, height, rotation, bs, b) ==
    IF b >= Len(bs) THEN None
    ELSE LET placement == genetic_find_best_placement_in_bin(
                              width, height, rotation, bs[b + 1])
         IN  IF placement # None
             THEN Some([bin_index |-> b, placement |-> placement[1]])
             ELSE FirstAcceptingBin(width, height, rotation, bs, b + 1)

\* a shape that no bin takes was left out instead of opening a bin
DecodeGene_drop_unplaced(bs, gene, shps, cfg) ==
    LET shape == shps[gene.shape_index + 1]
        width == OrientedWidth(shape, gene.flip)
        height == OrientedHeight(shape, gene.flip)
        found == FirstAcceptingBin(width, height, gene.rotation, bs, 0)
    IN  IF found # None
        THEN [bs EXCEPT ![found[1].bin_index + 1].placements =
                 Append(@, WithShapeIndex(found[1].placement, gene.shape_index))]
        ELSE bs

\* lines 135-156: one iteration of create_bins_from_solution's loop
DecodeGene(bs, gene, shps, cfg) ==
    LET shape == shps[gene.shape_index + 1]
        width == OrientedWidth(shape, gene.flip)
        height == OrientedHeight(shape, gene.flip)
        found == FirstAcceptingBin(width, height, gene.rotation, bs, 0)
    IN  IF found # None
        THEN [bs EXCEPT ![found[1].bin_index + 1].placements =
                 Append(@, WithShapeIndex(found[1].placement, gene.shape_index))]
        ELSE Append(bs,
                 [Bin(cfg.bin_width, cfg.bin_height) EXCEPT !.placements =
                     <<WithShapeIndex(Placement(0, 0, width, height, gene.rotation),
                                      gene.shape_index)>>])

RECURSIVE DecodeFrom(_, _, _, _)
DecodeFrom(bs, genes, shps, cfg) ==
    IF genes = <<>> THEN bs
    ELSE DecodeFrom(DecodeGene(bs, Head(genes), shps, cfg), Tail(genes), shps, cfg)

create_bins_from_solution(sol, shps, cfg) ==
    DecodeFrom(<<Bin(cfg.bin_width, cfg.bin_height)>>, sol, shps, cfg)

RECURSIVE SumSeq(_)
SumSeq(seq) ==
    IF seq = <<>> THEN 0 ELSE Head(seq) + SumSeq(Tail(seq))

\* calculate_used_area(bin): sum(p.width * p.height for p in bin.placements)
calculate_used_area(bin) ==
    SumSeq([k \in 1..Len(bin.placements) |->
               bin.placements[k].width * bin.placements[k].height])

\* calculate_fitness: used_area / total_area, kept as the pair <<used_area, total_area>>
calculate_fitness(sol, shps, cfg) ==
    LET bs == create_bins_from_solution(sol, shps, cfg)
    IN  <<SumSeq([k \in 1..Len(bs) |-> calculate_used_area(bs[k])]),
          SumSeq([k \in 1..Len(bs) |-> bs[k].width * bs[k].height])>>

\* fitness values are compared as the fractions they stand for
FitnessGreater(a, b) ==
    a[1] * b[2] > b[1] * a[2]

FitnessEqual(a, b) ==
    a[1] * b[2] = b[1] * a[2]

\* initialize_population with every gene flipped
initialize_population_flipped(num_shapes, population_size) ==
    [k \in 1..population_size |-> [i \in 1..num_shapes |-> Gene(i - 1, 0, TRUE)]]

\* initialize_population (lines 79-85): population_size copies of [(i, 0, False), ...]
initialize_population(num_shapes, population_size) ==
    [k \in 1..population_size |-> [i \in 1..num_shapes |-> Gene(i - 1, 0, FALSE)]]

\* fitness_scores.index(max(fitness_scores)), as a position: the first score
\* no other score is greater than
current_best_index(scores) ==
    CHOOSE k \in 1..Len(scores) :
        /\ \A j \in 1..Len(scores) : ~FitnessGreater(scores[j], scores[k])
        /\ \A j \in 1..(k - 1) : FitnessGreater(scores[k], scores[j])

\* line 49: current_best > best_fitness or
\*          (current_best == best_fitness and current_bin_count < best_bin_count)
Improves(score, bin_count, best_fitness_, best_bin_count_) ==
    \/ FitnessGreater(score, best_fitness_)
    \/ /\ FitnessEqual(score, best_fitness_)
       /\ best_bin_count_ = None \/ bin_count < best_bin_count_[1]

\* the next generation started empty: the best genome is not carried over
Elitism_none(best) ==
    <<>>

\* line 61: new_population = [best_solution]  # Elitism
Elitism(best) ==
    <<best>>

\* select_parent (lines 93-104), run by a pool worker on its own random state:
\* the positions the roulette wheel can stop at. pick = uniform(0, total_fitness)
\* lands in a solution's slice when the slice is not empty; the last solution
\* is the fall-through
Selectable(scores) ==
    {k \in 1..Len(scores) : scores[k][1] > 0 \/ k = Len(scores)}

\* the rotations mutate can write: randint(0, steps - 1) * (360 / steps)
Rotations(cfg) ==
    {RotationAngle(r, cfg.rotation_steps) : r \in 0..(cfg.rotation_steps - 1)}

\* the two slices joined the other way round
crossover_tail_first(parent1, parent2, crossover_point) ==
    SubSeq(parent2, crossover_point + 1, Len(parent2))
        \o SubSeq(parent1, 1, crossover_point)

\* crossover (lines 106-112): parent1[:crossover_point] + parent2[crossover_point:]
crossover(parent1, parent2, crossover_point) ==
    SubSeq(parent1, 1, crossover_point)
        \o SubSeq(parent2, crossover_point + 1, Len(parent2))

\* mutate (lines 114-128) under the driver's draws: index, the coin of line 118
\* (rotates) and the new rotation
mutate(sol, index, rotates, new_rotation, cfg) ==
    IF cfg.rotation_steps > 1 /\ rotates
    THEN [sol EXCEPT ![index + 1].rotation = new_rotation]
    ELSE IF cfg.allow_flip
         THEN [sol EXCEPT ![index + 1].flip = ~@]
         ELSE sol

\* what the driver's random state yields in one iteration of the breeding loop:
\* crossover's randint, the coin of line 66, mutate's randint, coin and rotation
DriverDraws(num_shapes, cfg) ==
    [crossover_point : 0..(num_shapes - 1), mutates : BOOLEAN,
     index : 0..(num_shapes - 1), rotates : BOOLEAN, new_rotation : Rotations(cfg)]

\* the child was the driver's own list of the second parent whenever
\* crossover took nothing from the first
SharedWithChild_second_parent(parent1, parent2, crossover_point) ==
    IF crossover_point = 0 THEN {parent2} ELSE {}

\* the positions of the driver's population whose list is the very list the
\* child is: none. The parents (positions parent1, parent2) reach the driver as
\* copies unpickled from the workers (line 63), and crossover builds a new list
\* by slicing and concatenation (line 112); mutate writes into that list only
SharedWithChild(parent1, parent2, crossover_point) ==
    {}

\* lines 64-68: the child of two parents under the driver's draws
Child(parent1, parent2, draw, cfg) ==
    LET child == crossover(parent1, parent2, draw.crossover_point)
    IN  IF draw.mutates
        THEN mutate(child, draw.index, draw.rotates, draw.new_rotation, cfg)
        ELSE child

----------------------------------------------------------------------------
(* src/nesters/simple.py: SimpleNester, the grid first-fit packer *)

\* an object as a record of its attributes: reading an attribute the object
\* does not have raises AttributeError
HasAttribute(obj, name) ==
    name \in DOMAIN obj

\* is_valid_placement (lines 103-112) on whatever object stands in for the bin:
\* the bounds test reads width and height, line 109 reads placements
grid_is_valid_placement(obj, placement) ==
    IF \/ placement.x + placement.width > obj.width
       \/ placement.y + placement.height > obj.height
    THEN "False"
    ELSE IF ~HasAttribute(obj, "placements") THEN "AttributeError"
         ELSE IF \E k \in 1..Len(obj.placements) :
                     overlaps(placement, obj.placements[k])
              THEN "False"
              ELSE "True"

\* lines 159-163: the waste of a placement under best_fit
GridWaste(placement, cfg) ==
    (cfg.bin_width - placement.x - placement.width) * placement.height
        + (cfg.bin_height - placement.y - placement.height) * placement.width

\* is_better_placement (lines 153-170) with a current placement; any other
\* strategy falls off the end and returns None
grid_is_better_placement(new, current, cfg) ==
    IF cfg.placement_strategy = "bottom_left"
    THEN new.y < current.y \/ (new.y = current.y /\ new.x < current.x)
    ELSE IF cfg.placement_strategy = "best_fit"
         THEN GridWaste(new, cfg) < GridWaste(current, cfg)
         ELSE FALSE

\* range(start, stop, step) as a sequence
StepRange(start, stop, step) ==
    LET count == IF stop <= start THEN 0 ELSE ((stop - start - 1) \div step) + 1
    IN  [k \in 1..count |-> start + (k - 1) * step]

\* lines 75-88: the candidates of one orientation, x outer loop, y inner loop
GridCandidates(shape, space, o) ==
    LET width == OrientedWidth(shape, o.flip)
        height == OrientedHeight(shape, o.flip)
        step_size == Max(1, Min(shape.width \div 2, shape.height \div 2))
        xs == StepRange(space.x, space.x + space.width - width + 1, step_size)
        ys == StepRange(space.y, space.y + space.height - height + 1, step_size)
    IN  IF width <= space.width /\ height <= space.height
        THEN [k \in 1..(Len(xs) * Len(ys)) |->
                 Placement(xs[((k - 1) \div Len(ys)) + 1], ys[((k - 1) % Len(ys)) + 1],
                           width, height, o.rotation)]
        ELSE <<>>

RECURSIVE AllGridCandidates(_, _, _)
AllGridCandidates(shape, space, os) ==
    IF os = <<>> THEN <<>>
    ELSE GridCandidates(shape, space, Head(os))
             \o AllGridCandidates(shape, space, Tail(os))

\* lines 88-99: candidate after candidate; is_valid_placement is called with
\* the free space where the bin is expected (line 89)
RECURSIVE GridBestFrom(_, _, _, _)
GridBestFrom(cands, space, cfg, best) ==
    IF cands = <<>> THEN [raised |-> FALSE, placement |-> best]
    ELSE LET valid == grid_is_valid_placement(space, Head(cands))
         IN  IF valid = "AttributeError"
             THEN [raised |-> TRUE, placement |-> None]
             ELSE IF /\ valid = "True"
                     /\ best = None \/ grid_is_better_placement(Head(cands), best[1], cfg)
                  THEN IF cfg.placement_strategy = "bottom_left"
                       THEN [raised |-> FALSE, placement |-> Some(Head(cands))]
                       ELSE GridBestFrom(Tail(cands), space, cfg, Some(Head(cands)))
                  ELSE GridBestFrom(Tail(cands), space, cfg, best)

\* find_best_placement (lines 63-101)
grid_find_best_placement(shape, space, cfg) ==
    GridBestFrom(AllGridCandidates(shape, space, Orientations(cfg)), space, cfg, None)

\* find_best_placement_in_bin (lines 50-61), space after space
RECURSIVE GridBestInBinFrom(_, _, _, _, _)
GridBestInBinFrom(shape, bin, sps, cfg, best) ==
    IF sps = <<>> THEN [raised |-> FALSE, placement |-> best]
    ELSE LET found == grid_find_best_placement(shape, Head(sps), cfg)
         IN  IF found.raised THEN found
             ELSE IF /\ found.placement # None
                     /\ grid_is_valid_placement(bin, found.placement[1]) = "True"
                     /\ \/ best = None
                        \/ grid_is_better_placement(found.placement[1], best[1], cfg)
                  THEN GridBestInBinFrom(shape, bin, Tail(sps), cfg, found.placement)
                  ELSE GridBestInBinFrom(shape, bin, Tail(sps), cfg, best)

grid_find_best_placement_in_bin(shape, bin, cfg) ==
    GridBestInBinFrom(shape, bin, bin.spaces, cfg, None)

\* lines 116-141: what one free space leaves behind
GridRemains(space, placement) ==
    IF overlaps(space, placement)
    THEN (IF space.x + space.width > placement.x + placement.width
          THEN <<Placement(placement.x + placement.width, space.y,
                           space.x + space.width - (placement.x + placement.width),
                           space.height, 0)>>
          ELSE <<>>)
         \o (IF space.y + space.height > placement.y + placement.height
             THEN <<Placement(space.x, placement.y + placement.height, space.width,
                              space.y + space.height - (placement.y + placement.height),
                              0)>>
             ELSE <<>>)
    ELSE <<space>>

RECURSIVE GridNewSpaces(_, _)
GridNewSpaces(sps, placement) ==
    IF sps = <<>> THEN <<>>
    ELSE GridRemains(Head(sps), placement) \o GridNewSpaces(Tail(sps), placement)

\* sorted(new_spaces, key=lambda s: (s.y, s.x)): stable, ascending
RECURSIVE SortedByYX(_)
SortedByYX(sps) ==
    IF sps = <<>> THEN <<>>
    ELSE LET last == sps[Len(sps)]
             front == SortedByYX(SubSeq(sps, 1, Len(sps) - 1))
             keep == {k \in 1..Len(front) :
                         \/ front[k].y < last.y
                         \/ front[k].y = last.y /\ front[k].x <= last.x}
         IN  SubSeq(front, 1, Cardinality(keep)) \o <<last>>
                 \o SubSeq(front, Cardinality(keep) + 1, Len(front))

\* update_spaces (lines 114-143)
grid_update_spaces(bin, placement) ==
    [bin EXCEPT !.spaces = SortedByYX(GridNewSpaces(bin.spaces, placement))]

\* lines 27-30 and 39-41: the placement gets its index and goes into the bin
GridCommit(bin, placement, index) ==
    grid_update_spaces(
        [bin EXCEPT !.placements = Append(@, WithShapeIndex(placement, index))],
        WithShapeIndex(placement, index))

\* lines 35-36: a new bin with the whole sheet as its single free space
NewGridBin(cfg) ==
    [width |-> cfg.bin_width, height |-> cfg.bin_height, placements |-> <<>>,
     skyline |-> <<>>, spaces |-> <<FullSpace(cfg)>>]

\* lines 25-32: the bins in order, up to the first that takes the shape
RECURSIVE GridFirstBin(_, _, _, _)
GridFirstBin(current, bs, b, cfg) ==
    IF b >= Len(bs) THEN [raised |-> FALSE, bins |-> None]
    ELSE LET found == grid_find_best_placement_in_bin(current, bs[b + 1], cfg)
         IN  IF found.raised THEN [raised |-> TRUE, bins |-> None]
             ELSE IF found.placement # None
                  THEN [raised |-> FALSE,
                        bins |-> Some([bs EXCEPT ![b + 1] =
                                    GridCommit(@, found.placement[1], current.index)])]
                  ELSE GridFirstBin(current, bs, b + 1, cfg)

\* lines 24-46, one iteration of nest's loop: whether it raises, and the bins
\* it leaves
GridIteration(current, bs, cfg) ==
    LET existing == GridFirstBin(current, bs, 0, cfg)
        fresh == grid_find_best_placement_in_bin(current, NewGridBin(cfg), cfg)
    IN  IF existing.raised THEN [raised |-> TRUE, bins |-> bs]
        ELSE IF existing.bins # None THEN [raised |-> FALSE, bins |-> existing.bins[1]]
        ELSE IF fresh.raised THEN [raised |-> TRUE, bins |-> bs]
        ELSE IF fresh.placement # None
             THEN [raised |-> FALSE,
                   bins |-> Append(bs, GridCommit(NewGridBin(cfg), fresh.placement[1],
                                                  current.index))]
             ELSE [raised |-> FALSE, bins |-> bs]

----------------------------------------------------------------------------
(* src/nesters/rect.py: RectNester, the adapter of the rectpack packer *)

\* a rectangle as the packer hands it back: rid is the id given to add_rect
PackedRect(rid, x, y, width, height) ==
    [rid |-> rid, x |-> x, y |-> y, width |-> width, height |-> height]

\* the ids, ascending, that an assignment puts into bin b
RECURSIVE IdsInBin(_, _, _)
IdsInBin(assignment, b, i) ==
    IF i > Len(assignment) THEN <<>>
    ELSE (IF assignment[i] = b THEN <<i - 1>> ELSE <<>>)
             \o IdsInBin(assignment, b, i + 1)

\* lines 18-36: what the packer can hold after pack(). rectpack is not part of
\* the repository: every id is in one of two bins or in none, a bin may be
\* empty, a packed rectangle has the shape's sides, swapped when the packer
\* rotated it; the rectangles of a bin lie side by side
PackerOutcomes(shps, cfg) ==
    {[b \in 1..2 |->
        LET ids == IdsInBin(assignment, b, 1)
        IN  [k \in 1..Len(ids) |->
                LET shape == shps[ids[k] + 1]
                IN  PackedRect(ids[k], 2 * (k - 1), 0,
                        OrientedWidth(shape, rotated[ids[k] + 1]),
                        OrientedHeight(shape, rotated[ids[k] + 1]))]] :
        assignment \in [1..Len(shps) -> 0..2],
        rotated \in [1..Len(shps) -> IF cfg.allow_rotate THEN BOOLEAN ELSE {FALSE}]}

\* lines 42-58 with shape_index the position in the bin, not the rid
ConvertBin_by_position(abin, cfg) ==
    [Bin(cfg.bin_width, cfg.bin_height) EXCEPT !.placements =
        [k \in 1..Len(abin) |->
            WithShapeIndex(
                Placement(abin[k].x, abin[k].y, abin[k].width, abin[k].height, 0),
                k - 1)]]

\* lines 42-58: a Bin with one Placement per rectangle, shape_index = rect.rid
ConvertBin(abin, cfg) ==
    [Bin(cfg.bin_width, cfg.bin_height) EXCEPT !.placements =
        [k \in 1..Len(abin) |->
            WithShapeIndex(
                Placement(abin[k].x, abin[k].y, abin[k].width, abin[k].height, 0),
                abin[k].rid)]]

\* sum(len(bin.placements) for bin in bins)
PackedCount(bs) ==
    SumSeq([b \in 1..Len(bs) |-> Len(bs[b].placements)])

\* lines 65-67: set(range(len(shapes))) - set(p.shape_index for bin in bins for p in bin.placements)
Unpacked(shps, bs) ==
    (0..(Len(shps) - 1))
        \ {bs[b].placements[k].shape_index :
              <<b, k>> \in {<<b, k>> \in (1..Len(bs)) \X (1..Len(shps)) :
                               k <= Len(bs[b].placements)}}

----------------------------------------------------------------------------
(* src/src/bom_packer/nesters/rect.py: the RectNester of the bom_packer package *)

\* a call Placement(*args): __init__ (shapes.py lines 12-24) takes x, y, width,
\* height and rotation, none with a default; any other number of positional
\* arguments raises TypeError
PlacementCall(args) ==
    IF Len(args) = 5
    THEN [raised |-> FALSE,
          placement |-> Some(Placement(args[1], args[2], args[3], args[4], args[5]))]
    ELSE [raised |-> TRUE, placement |-> None]

\* lines 42-48: the arguments nest hands to Placement for a packed rectangle
PlacementArguments(rect, parts_) ==
    LET original_part == parts_[rect.rid + 1]
    IN  <<rect.x, rect.y, IF rect.width # original_part.width THEN 90 ELSE 0,
          original_part>>

\* lines 41-49: the rectangles of a packer bin, one Placement call each
RECURSIVE PipelineConvertFrom(_, _, _)
PipelineConvertFrom(new_bin, abin, parts_) ==
    IF abin = <<>> THEN [raised |-> FALSE, bin |-> new_bin]
    ELSE LET call == PlacementCall(PlacementArguments(Head(abin), parts_))
         IN  IF call.raised THEN [raised |-> TRUE, bin |-> new_bin]
             ELSE PipelineConvertFrom(
                      [new_bin EXCEPT !.placements = Append(@, call.placement[1])],
                      Tail(abin), parts_)

\* line 57: set(p.part.name for bin in bins for p in bin.placements)
PlacedPartNames(bs) ==
    {bs[b].placements[k].part.name :
        <<b, k>> \in {<<b, k>> \in (1..Len(bs)) \X (1..Len(shapes)) :
                         k <= Len(bs[b].placements)}}

----------------------------------------------------------------------------
(* src/src/bom_packer/dxf/io.py and core.py: a BOM's parts become shapes *)

\* an entity of a DXF file by what its handler's get_points does: it raises,
\* or it returns the entity's points (none for an entity type without handler)
Entity(raises, points) ==
    [raises |-> raises, points |-> points]

Line == Entity(FALSE, <<<<0, 0>>, <<1, 2>>>>)

Unrecognized == Entity(FALSE, <<>>)

Broken == Entity(TRUE, <<>>)

\* a DXF file by what ezdxf.readfile does with its path: FileNotFoundError
\* ("missing"), DXFStructureError ("malformed"), or a document with entities
DxfFile(kind, entities) ==
    [kind |-> kind, entities |-> entities]

Part(file, quantity) ==
    [file |-> file, quantity |-> quantity]

\* Shape(part, rectangle, entities): the part by its position in the BOM
Shape(part, rectangle) ==
    [part |-> part, rectangle |-> rectangle]

\* lines 27-42 of io.py: the points of the entities whose handler returns
RECURSIVE AllPoints(_)
AllPoints(entities) ==
    IF entities = <<>> THEN <<>>
    ELSE (IF Head(entities).raises THEN <<>> ELSE Head(entities).points)
             \o AllPoints(Tail(entities))

\* lines 41-42 of io.py: summary["errors"], one entry per entity whose handler raised
SummaryErrors(entities) ==
    SelectSeq([k \in 1..Len(entities) |-> IF entities[k].raises THEN k ELSE 0],
              LAMBDA e : e > 0)

Coordinates(points, axis) ==
    {points[k][axis] : k \in 1..Len(points)}

MinOf(S) ==
    CHOOSE m \in S : \A e \in S : m <= e

MaxOf(S) ==
    CHOOSE m \in S : \A e \in S : m >= e

\* extract_boundary_from_dxf(filename, margin) (io.py lines 13-54): the
\* exception it raises, or "" and the boundary and summary["errors"] it returns.
\* min() and max() of line 45-48 raise ValueError when all_points is empty
extract_boundary_from_dxf(file, margin_) ==
    IF file.kind = "missing"
    THEN [raises |-> "FileNotFoundError", rectangle |-> None, errors |-> <<>>]
    ELSE IF file.kind = "malformed"
    THEN [raises |-> "DXFStructureError", rectangle |-> None, errors |-> <<>>]
    ELSE LET all_points == AllPoints(file.entities)
         IN  IF all_points = <<>>
             THEN [raises |-> "ValueError", rectangle |-> None, errors |-> <<>>]
             ELSE LET min_x == MinOf(Coordinates(all_points, 1)) - margin_
                      min_y == MinOf(Coordinates(all_points, 2)) - margin_
                      max_x == MaxOf(Coordinates(all_points, 1)) + margin_
                      max_y == MaxOf(Coordinates(all_points, 2)) + margin_
                  IN  [raises |-> "",
                       rectangle |-> Some(Rectangle(max_x - min_x, max_y - min_y)),
                       errors |-> SummaryErrors(file.entities)]

\* core.py lines 64-65: for _ in range(part.quantity): all_shapes.append(Shape(...))
Copies(shape, quantity) ==
    [k \in 1..quantity |-> shape]

----------------------------------------------------------------------------
(* the runs: which configurations and shape lists nest is called with *)

Engines == {"guillotine", "skyline", "genetic", "optimizer", "rect", "batch", "grid",
            "pipeline"}

\* on the 3 x 2 sheet: 1x3 fits only flipped, 3x3 fits in no orientation
Rects ==
    {Rectangle(1, 1), Rectangle(1, 2), Rectangle(2, 2), Rectangle(1, 3),
     Rectangle(3, 3)}

MakeConfig(bw, bh, steps, flip, sort, strategy, la) ==
    [bin_width |-> bw, bin_height |-> bh, rotation_steps |-> steps,
     allow_flip |-> flip, sort_method |-> sort, placement_strategy |-> strategy,
     look_ahead |-> la]

GuillotineConfigs ==
    {MakeConfig(bw, bh, steps, flip, sort, strategy, 0) :
        bw \in BinWidths, bh \in BinHeights, steps \in RotationSteps,
        flip \in BOOLEAN, sort \in SortMethods, strategy \in GuillotineStrategies}

\* non-positive sheet sides, zero rotation steps, zero-sized rectangles
InvalidBinWidths == BinWidths \cup {0}

InvalidBinHeights == BinHeights \cup {0}

InvalidRotationSteps == {0, 1}

InvalidRects ==
    {Rectangle(0, 1), Rectangle(1, 1)}

InvalidConfigs ==
    {MakeConfig(bw, bh, steps, TRUE, "area", strategy, 0) :
        bw \in InvalidBinWidths, bh \in InvalidBinHeights,
        steps \in InvalidRotationSteps, strategy \in {"bottom_left", "best_fit"}}

\* lines 47-52 of process_parts: no failure of any kind yet
EmptySummary ==
    [file_not_found |-> <<>>, dxf_structure_error |-> <<>>,
     no_valid_entities |-> <<>>, processing_errors |-> <<>>]

ValidRun ==
    /\ config.bin_width > 0
    /\ config.bin_height > 0
    /\ config.rotation_steps > 0
    /\ \A k \in 1..Len(shapes) : shapes[k].width > 0 /\ shapes[k].height > 0

Idle ==
    /\ pc = "ready"
    /\ sorted_shapes = <<>>
    /\ shape_index = 0
    /\ spaces = <<>>
    /\ placements = <<>>
    /\ bins = <<>>
    /\ gene_pos = 0
    /\ fitness = <<0, 0>>
    /\ error = ""
    /\ first_result = None
    /\ population = <<>>
    /\ tasks = {}
    /\ results = <<>>
    /\ fitness_scores = <<>>
    /\ current_best_fitness = <<0, 1>>
    /\ best_solution = None
    /\ best_fitness = <<0, 1>>
    /\ best_bin_count = None
    /\ new_population = <<>>
    /\ generation = 0
    /\ packer = <<>>
    /\ abin_index = 0
    /\ unpacked_shapes = None
    /\ part_index = 0
    /\ all_shapes = <<>>
    /\ error_summary = EmptySummary

\* a run of a nester: no BOM
NoBatch ==
    /\ parts = <<>>
    /\ margin = 0

InitGuillotine ==
    /\ engine = "guillotine"
    /\ config \in GuillotineConfigs
    /\ shapes \in BoundedSeq(Rects, MaxShapes)
    /\ solution = <<>>
    /\ Idle
    /\ NoBatch

InitInvalid ==
    /\ engine \in {"guillotine", "skyline"}
    /\ config \in InvalidConfigs
    /\ shapes \in BoundedSeq(InvalidRects, MaxShapes)
    /\ solution = <<>>
    /\ Idle
    /\ NoBatch

SkylineConfigs ==
    {MakeConfig(bw, bh, steps, flip, sort, strategy, la) :
        bw \in BinWidths, bh \in BinHeights, steps \in RotationSteps,
        flip \in BOOLEAN, sort \in SortMethods, strategy \in SkylineStrategies,
        la \in 0..MaxLookAhead}

\* rotation_steps of the decoder runs: the decoder copies a gene's rotation and
\* never reads it, so one value is drawn
GeneticRotationSteps == {1}

\* the genetic nester has neither sort_method nor placement_strategy
GeneticConfigs ==
    {MakeConfig(bw, bh, steps, flip, "none", "none", 0) :
        bw \in BinWidths, bh \in BinHeights, steps \in GeneticRotationSteps,
        flip \in BOOLEAN}

\* the genomes nest can hold for n shapes: gene i is shape i (initialize_population),
\* rotation and flip as crossover and mutate can leave them
Genomes(n, cfg) ==
    {[i \in 1..n |-> Gene(i - 1, rot[i], flip[i])] :
        rot \in [1..n -> Rotations(cfg)],
        flip \in [1..n -> IF cfg.allow_flip THEN BOOLEAN ELSE {FALSE}]}

InitSkyline ==
    /\ engine = "skyline"
    /\ config \in SkylineConfigs
    /\ shapes \in BoundedSeq(Rects, MaxShapes)
    /\ solution = <<>>
    /\ Idle
    /\ NoBatch

InitGenetic ==
    /\ engine = "genetic"
    /\ config \in GeneticConfigs
    /\ shapes \in BoundedSeq(Rects, MaxShapes)
    /\ solution \in Genomes(Len(shapes), config)
    /\ Idle
    /\ NoBatch

\* the 10 x 10 sheet of the two worked examples
ExampleConfigs(strategies, look_aheads) ==
    {MakeConfig(10, 10, steps, flip, sort, strategy, la) :
        steps \in RotationSteps, flip \in BOOLEAN, sort \in SortMethods,
        strategy \in strategies, la \in look_aheads}

\* guillotine packer, 10 x 10, two 6 x 6 rectangles, bottom_left
InitTwoSixes ==
    /\ engine = "guillotine"
    /\ config \in ExampleConfigs({"bottom_left"}, {0})
    /\ shapes = <<Rectangle(6, 6), Rectangle(6, 6)>>
    /\ solution = <<>>
    /\ Idle
    /\ NoBatch

\* skyline packer, 10 x 10, four 5 x 5 rectangles, look_ahead 0..3
InitFourFives ==
    /\ engine = "skyline"
    /\ config \in ExampleConfigs(SkylineStrategies, 0..3)
    /\ shapes = <<Rectangle(5, 5), Rectangle(5, 5), Rectangle(5, 5), Rectangle(5, 5)>>
    /\ solution = <<>>
    /\ Idle
    /\ NoBatch

\* GeneticNester.nest: 1x3 fits the 3 x 2 sheet only flipped, 3x1 only unflipped
OptimizerRects ==
    {Rectangle(1, 3), Rectangle(3, 1)}

PopulationSizes == {1, 2}

Generations == {1, 2}

OptimizerRotationSteps == {1, 2}

\* mutation_rate is strictly between 0 and 1: the coin of line 66 can fall either way
OptimizerConfigs ==
    {[population_size |-> size, generations |-> gens]
        @@ MakeConfig(bw, bh, steps, flip, "none", "none", 0) :
        size \in PopulationSizes, gens \in Generations,
        bw \in BinWidths, bh \in BinHeights, steps \in OptimizerRotationSteps,
        flip \in BOOLEAN}

InitOptimizer ==
    /\ engine = "optimizer"
    /\ config \in OptimizerConfigs
    /\ shapes \in BoundedSeq(OptimizerRects, MaxShapes)
    /\ solution = <<>>
    /\ Idle
    /\ NoBatch

\* RectNester.nest: 1x2 differs from its rotation
AdapterRects ==
    {Rectangle(1, 2)}

\* RectNester reads bin_width, bin_height and allow_rotate
AdapterConfigs ==
    {[allow_rotate |-> rotate] @@ MakeConfig(bw, bh, 1, rotate, "none", "none", 0) :
        bw \in BinWidths, bh \in BinHeights, rotate \in BOOLEAN}

InitAdapter ==
    /\ engine = "rect"
    /\ config \in AdapterConfigs
    /\ shapes \in BoundedSeq(AdapterRects, MaxShapes)
    /\ solution = <<>>
    /\ Idle
    /\ NoBatch

\* the longest BOM handed to process_parts
MaxParts == 2

\* a missing file, a malformed file, a document without entities, documents
\* whose entities yield no point, and documents with a line
DxfFiles ==
    {DxfFile("missing", <<>>), DxfFile("malformed", <<>>),
     DxfFile("readable", <<>>), DxfFile("readable", <<Unrecognized>>),
     DxfFile("readable", <<Broken>>), DxfFile("readable", <<Line>>),
     DxfFile("readable", <<Line, Broken>>),
     DxfFile("readable", <<Unrecognized, Line>>)}

Quantities == {1, 2}

Margins == {0, 1}

InitBatch ==
    /\ engine = "batch"
    /\ config \in {[allow_rotate |-> FALSE] @@ MakeConfig(bw, bh, 1, FALSE, "none", "none", 0) :
                       bw \in BinWidths, bh \in BinHeights}
    /\ shapes = <<>>
    /\ solution = <<>>
    /\ Idle
    /\ parts \in BoundedSeq({Part(file, quantity) :
                                file \in DxfFiles, quantity \in Quantities}, MaxParts)
    /\ margin \in Margins

\* the grid packer: 1x1 fits the sheet, 1x3 fits only flipped, 3x3 does not fit
GridRects ==
    {Rectangle(1, 1), Rectangle(1, 3), Rectangle(3, 3)}

GridStrategies == {"bottom_left", "best_fit"}

GridSortMethods == {"area", "width"}

GridConfigs ==
    {MakeConfig(bw, bh, steps, flip, sort, strategy, 0) :
        bw \in BinWidths, bh \in BinHeights, steps \in RotationSteps,
        flip \in BOOLEAN, sort \in GridSortMethods, strategy \in GridStrategies}

InitGrid ==
    /\ engine = "grid"
    /\ config \in GridConfigs
    /\ shapes \in BoundedSeq(GridRects, MaxShapes)
    /\ solution = <<>>
    /\ Idle
    /\ NoBatch

\* nest_shapes (core.py lines 83-85): shapes is [shape.rectangle for shape in
\* all_shapes], the configuration is RectNester's
InitPipeline ==
    /\ engine = "pipeline"
    /\ config \in AdapterConfigs
    /\ shapes \in BoundedSeq(AdapterRects, MaxShapes)
    /\ solution = <<>>
    /\ Idle
    /\ NoBatch

Init ==
    \/ InitPipeline
    \/ InitGrid
    \/ InitBatch
    \/ InitAdapter
    \/ InitOptimizer
    \/ InitGuillotine
    \/ InitSkyline
    \/ InitGenetic
    \/ InitInvalid
    \/ InitTwoSixes
    \/ InitFourFives

----------------------------------------------------------------------------
(* SimpleNester.nest, one loop iteration per step *)

\* lines 48-56: sort, and the free space of bin 0
GuillotineSort ==
    /\ engine = "guillotine"
    /\ pc = "ready"
    /\ sorted_shapes' = sort_shapes(shapes, config.sort_method)
    /\ spaces' = <<<<FullSpace(config)>>>>
    /\ pc' = "packing"
    /\ UNCHANGED <<engine, config, shapes, shape_index, placements, bins,
                   solution, gene_pos, fitness, error>>
    /\ UNCHANGED other_vars

GuillotineLooping ==
    /\ engine = "guillotine"
    /\ pc = "packing"
    /\ shape_index < Len(sorted_shapes)

\* line 132 with rotation_steps = 0: 360 / 0 raises ZeroDivisionError
GuillotineRaise ==
    /\ GuillotineLooping
    /\ config.rotation_steps = 0
    /\ pc' = "raised"
    /\ error' = "ZeroDivisionError"
    /\ UNCHANGED <<engine, config, shapes, sorted_shapes, shape_index, spaces,
                   placements, bins, solution, gene_pos, fitness>>
    /\ UNCHANGED other_vars

\* lines 73-79: a free space of an existing bin takes the shape
GuillotinePlace ==
    /\ GuillotineLooping
    /\ config.rotation_steps # 0
    /\ LET best == SearchSpaces(sorted_shapes[shape_index + 1], spaces, config)
       IN  /\ best # None
           /\ placements' = Append(placements,
                  Committed(best[1].placement, shape_index, best[1].bin_index, config))
           /\ spaces' = [spaces EXCEPT ![best[1].bin_index + 1] =
                  update_spaces(@, best[1].space_index, best[1].placement)]
    /\ shape_index' = shape_index + 1
    /\ UNCHANGED <<engine, config, shapes, pc, sorted_shapes, bins, solution,
                   gene_pos, fitness, error>>
    /\ UNCHANGED other_vars

\* lines 80-100: no space takes it, a new bin is opened and takes it
GuillotineNewBin ==
    /\ GuillotineLooping
    /\ config.rotation_steps # 0
    /\ SearchSpaces(sorted_shapes[shape_index + 1], spaces, config) = None
    /\ LET new_bin_index == Len(spaces)
           new_placement == find_best_placement(
                                sorted_shapes[shape_index + 1], FullSpace(config), config)
       IN  /\ new_placement # None
           /\ placements' = Append(placements,
                  Committed(new_placement[1], shape_index, new_bin_index, config))
           /\ spaces' = Append(spaces,
                  update_spaces(<<FullSpace(config)>>, 0, new_placement[1]))
    /\ shape_index' = shape_index + 1
    /\ UNCHANGED <<engine, config, shapes, pc, sorted_shapes, bins, solution,
                   gene_pos, fitness, error>>
    /\ UNCHANGED other_vars

\* lines 80-95, 101-104: the new bin does not take it either; its free space stays
GuillotineUnable ==
    /\ GuillotineLooping
    /\ config.rotation_steps # 0
    /\ SearchSpaces(sorted_shapes[shape_index + 1], spaces, config) = None
    /\ find_best_placement(sorted_shapes[shape_index + 1], FullSpace(config), config) = None
    /\ spaces' = Append(spaces, <<FullSpace(config)>>)
    /\ shape_index' = shape_index + 1
    /\ UNCHANGED <<engine, config, shapes, pc, sorted_shapes, placements, bins,
                   solution, gene_pos, fitness, error>>
    /\ UNCHANGED other_vars

\* line 106: return self.create_bins(placements)
GuillotineCreateBins ==
    /\ engine = "guillotine"
    /\ pc = "packing"
    /\ shape_index = Len(sorted_shapes)
    /\ placements = <<>> \/ config.bin_width # 0
    /\ bins' = create_bins(placements, config)
    /\ pc' = "done"
    /\ UNCHANGED <<engine, config, shapes, sorted_shapes, shape_index, spaces,
                   placements, solution, gene_pos, fitness, error>>
    /\ UNCHANGED other_vars

\* line 111 with bin_width = 0: placement.x // 0 raises ZeroDivisionError
GuillotineCreateBinsRaise ==
    /\ engine = "guillotine"
    /\ pc = "packing"
    /\ shape_index = Len(sorted_shapes)
    /\ placements # <<>>
    /\ config.bin_width = 0
    /\ pc' = "raised"
    /\ error' = "ZeroDivisionError"
    /\ UNCHANGED <<engine, config, shapes, sorted_shapes, shape_index, spaces,
                   placements, bins, solution, gene_pos, fitness>>
    /\ UNCHANGED other_vars

----------------------------------------------------------------------------
(* SkylineNester.nest, one iteration of the while loop per step *)

\* lines 28-30
SkylineSort ==
    /\ engine = "skyline"
    /\ pc = "ready"
    /\ sorted_shapes' = sort_shapes(Enumerate(shapes), config.sort_method)
    /\ pc' = "packing"
    /\ UNCHANGED <<engine, config, shapes, shape_index, spaces, placements, bins,
                   solution, gene_pos, fitness, error>>
    /\ UNCHANGED other_vars

SkylineLooping ==
    /\ engine = "skyline"
    /\ pc = "packing"
    /\ sorted_shapes # <<>>

\* sorted_shapes[: look_ahead] after the pop
LookAheadShapes ==
    Prefix(Tail(sorted_shapes), config.look_ahead)

\* line 72 with rotation_steps = 0: 360 / 0 raises ZeroDivisionError
SkylineRaise ==
    /\ SkylineLooping
    /\ config.rotation_steps = 0
    /\ sorted_shapes' = Tail(sorted_shapes)
    /\ pc' = "raised"
    /\ error' = "ZeroDivisionError"
    /\ UNCHANGED <<engine, config, shapes, shape_index, spaces, placements, bins,
                   solution, gene_pos, fitness>>
    /\ UNCHANGED other_vars

\* lines 37-46: an existing bin takes the shape
SkylinePlace ==
    /\ SkylineLooping
    /\ config.rotation_steps # 0
    /\ LET current == Head(sorted_shapes)
           found == FirstBinFrom(current, bins, LookAheadShapes, config, 0)
       IN  /\ found # None
           /\ bins' = [bins EXCEPT ![found[1].bin_index + 1] =
                  CommitToBin(@, found[1].placement, current.index)]
    /\ sorted_shapes' = Tail(sorted_shapes)
    /\ UNCHANGED <<engine, config, shapes, pc, shape_index, spaces, placements,
                   solution, gene_pos, fitness, error>>
    /\ UNCHANGED other_vars

\* lines 48-58: no bin takes it, a new bin does
SkylineNewBin ==
    /\ SkylineLooping
    /\ config.rotation_steps # 0
    /\ LET current == Head(sorted_shapes)
           placement == find_best_placement_with_lookahead(
                            current, NewSkylineBin(config), LookAheadShapes, config)
       IN  /\ FirstBinFrom(current, bins, LookAheadShapes, config, 0) = None
           /\ placement # None
           /\ bins' = Append(bins,
                  CommitToBin(NewSkylineBin(config), placement[1], current.index))
    /\ sorted_shapes' = Tail(sorted_shapes)
    /\ UNCHANGED <<engine, config, shapes, pc, shape_index, spaces, placements,
                   solution, gene_pos, fitness, error>>
    /\ UNCHANGED other_vars

\* lines 48-53, 59-62: the new bin does not take it either; it is not appended
SkylineUnable ==
    /\ SkylineLooping
    /\ config.rotation_steps # 0
    /\ LET current == Head(sorted_shapes)
       IN  /\ FirstBinFrom(current, bins, LookAheadShapes, config, 0) = None
           /\ find_best_placement_with_lookahead(
                  current, NewSkylineBin(config), LookAheadShapes, config) = None
    /\ sorted_shapes' = Tail(sorted_shapes)
    /\ UNCHANGED <<engine, config, shapes, pc, shape_index, spaces, placements, bins,
                   solution, gene_pos, fitness, error>>
    /\ UNCHANGED other_vars

\* line 64: return bins
SkylineReturn ==
    /\ engine = "skyline"
    /\ pc = "packing"
    /\ sorted_shapes = <<>>
    /\ pc' = "done"
    /\ UNCHANGED <<engine, config, shapes, sorted_shapes, shape_index, spaces,
                   placements, bins, solution, gene_pos, fitness, error>>
    /\ UNCHANGED other_vars

----------------------------------------------------------------------------
(* GeneticNester.calculate_fitness(solution): the decoder gene by gene, then the ratio *)

\* line 133: bins = [Bin(...)]
GeneticStart ==
    /\ engine = "genetic"
    /\ pc = "ready"
    /\ bins' = <<Bin(config.bin_width, config.bin_height)>>
    /\ pc' = "packing"
    /\ UNCHANGED <<engine, config, shapes, sorted_shapes, shape_index, spaces,
                   placements, solution, gene_pos, fitness, error>>
    /\ UNCHANGED other_vars

GeneticLooping ==
    /\ engine = "genetic"
    /\ pc = "packing"
    /\ gene_pos < Len(solution)

CurrentGeneFound ==
    LET gene == solution[gene_pos + 1]
        shape == shapes[gene.shape_index + 1]
    IN  FirstAcceptingBin(OrientedWidth(shape, gene.flip),
                          OrientedHeight(shape, gene.flip), gene.rotation, bins, 0)

\* lines 141-149: an existing bin has a valid grid position for the gene's shape
GeneticPlace ==
    /\ GeneticLooping
    /\ CurrentGeneFound # None
    /\ bins' = DecodeGene(bins, solution[gene_pos + 1], shapes, config)
    /\ gene_pos' = gene_pos + 1
    /\ UNCHANGED <<engine, config, shapes, pc, sorted_shapes, shape_index, spaces,
                   placements, solution, fitness, error>>
    /\ UNCHANGED other_vars

\* lines 151-156: none has, a new bin gets the shape at (0, 0)
GeneticOpenBin ==
    /\ GeneticLooping
    /\ CurrentGeneFound = None
    /\ bins' = DecodeGene(bins, solution[gene_pos + 1], shapes, config)
    /\ gene_pos' = gene_pos + 1
    /\ UNCHANGED <<engine, config, shapes, pc, sorted_shapes, shape_index, spaces,
                   placements, solution, fitness, error>>
    /\ UNCHANGED other_vars

\* lines 89-91: the decoded bins' used area over their total area
GeneticFitness ==
    /\ engine = "genetic"
    /\ pc = "packing"
    /\ gene_pos = Len(solution)
    /\ fitness' = calculate_fitness(solution, shapes, config)
    /\ pc' = "done"
    /\ UNCHANGED <<engine, config, shapes, sorted_shapes, shape_index, spaces,
                   placements, bins, solution, gene_pos, error>>
    /\ UNCHANGED other_vars

----------------------------------------------------------------------------
(* GeneticNester.nest (lines 23-77): the driver's loop over the generations, *)
(* and the pool workers that score the genomes                               *)

\* lines 24-28: the initial population and the best-so-far record
OptimizerStart ==
    /\ engine = "optimizer"
    /\ pc = "ready"
    /\ population' = initialize_population(Len(shapes), config.population_size)
    /\ best_solution' = None
    /\ best_fitness' = <<0, 1>>
    /\ best_bin_count' = None
    /\ generation' = 0
    /\ pc' = "generation"
    /\ UNCHANGED <<engine, config, shapes, sorted_shapes, shape_index, spaces,
                   placements, bins, solution, gene_pos, fitness, error, first_result,
                   outer_vars>>
    /\ UNCHANGED <<tasks, results, fitness_scores, current_best_fitness, new_population>>

\* line 38, pool.map(self.calculate_fitness, population) hands out one task per
\* genome; each task carries a copy of its genome
OptimizerMapFitness ==
    /\ engine = "optimizer"
    /\ pc = "generation"
    /\ generation < config.generations
    /\ tasks' = {[index |-> k, solution |-> population[k]] : k \in 1..Len(population)}
    /\ results' = [k \in 1..Len(population) |-> None]
    /\ pc' = "evaluating"
    /\ UNCHANGED <<engine, config, shapes, sorted_shapes, shape_index, spaces,
                   placements, bins, solution, gene_pos, fitness, error, first_result,
                   outer_vars>>
    /\ UNCHANGED <<population, fitness_scores, current_best_fitness, best_solution,
                   best_fitness, best_bin_count, new_population, generation>>

\* a pool worker runs calculate_fitness on a task, in any order, and returns the value
WorkerFitness ==
    /\ engine = "optimizer"
    /\ pc = "evaluating"
    /\ \E task \in tasks :
        /\ results' = [results EXCEPT ![task.index] =
                          Some(calculate_fitness(task.solution, shapes, config))]
        /\ tasks' = tasks \ {task}
    /\ UNCHANGED <<engine, config, shapes, pc, sorted_shapes, shape_index, spaces,
                   placements, bins, solution, gene_pos, fitness, error, first_result,
                   outer_vars>>
    /\ UNCHANGED <<population, fitness_scores, current_best_fitness, best_solution,
                   best_fitness, best_bin_count, new_population, generation>>

\* pool.map returns when every task has returned
MapReturned ==
    tasks = {}

\* lines 38-61: pool.map returns the scores in population order; the best of the
\* generation is compared with the best so far; the next generation starts
\* with the best so far
OptimizerCollect ==
    /\ engine = "optimizer"
    /\ pc = "evaluating"
    /\ MapReturned
    /\ LET scores == [k \in 1..Len(results) |-> results[k][1]]
           index == current_best_index(scores)
           current_best_solution == population[index]
           current_bin_count ==
               Len(create_bins_from_solution(current_best_solution, shapes, config))
           improves == Improves(scores[index], current_bin_count,
                                best_fitness, best_bin_count)
           best == IF improves THEN Some(current_best_solution) ELSE best_solution
       IN  /\ fitness_scores' = scores
           /\ current_best_fitness' = scores[index]
           /\ best_solution' = best
           /\ best_fitness' = IF improves THEN scores[index] ELSE best_fitness
           /\ best_bin_count' = IF improves THEN Some(current_bin_count)
                                ELSE best_bin_count
           /\ new_population' = Elitism(best[1])
    /\ pc' = "breeding"
    /\ UNCHANGED <<engine, config, shapes, sorted_shapes, shape_index, spaces,
                   placements, bins, solution, gene_pos, fitness, error, first_result,
                   outer_vars>>
    /\ UNCHANGED <<population, tasks, results, generation>>

\* the while loop left as soon as the next generation holds one genome
PopulationComplete_early ==
    Len(new_population) >= 1

\* line 62: while len(new_population) < self.config["population_size"]
PopulationComplete ==
    Len(new_population) >= config.population_size

\* lines 62-69, one iteration: two pool workers each select a parent, the driver
\* crosses them over and mutates the child
OptimizerBreed ==
    /\ engine = "optimizer"
    /\ pc = "breeding"
    /\ ~PopulationComplete
    /\ Len(shapes) > 0
    /\ \E parent1, parent2 \in Selectable(fitness_scores) :
        \E draw \in DriverDraws(Len(shapes), config) :
            LET child == Child(population[parent1], population[parent2], draw, config)
                shared == SharedWithChild(parent1, parent2, draw.crossover_point)
            IN  /\ new_population' = Append(new_population, child)
                /\ population' = [k \in 1..Len(population) |->
                                     IF k \in shared THEN child ELSE population[k]]
    /\ UNCHANGED <<engine, config, shapes, pc, sorted_shapes, shape_index, spaces,
                   placements, bins, solution, gene_pos, fitness, error, first_result,
                   outer_vars>>
    /\ UNCHANGED <<tasks, results, fitness_scores, current_best_fitness,
                   best_solution, best_fitness, best_bin_count, generation>>

\* line 108 with no shapes: random.randint(0, -1) raises ValueError
OptimizerBreedRaise ==
    /\ engine = "optimizer"
    /\ pc = "breeding"
    /\ ~PopulationComplete
    /\ Len(shapes) = 0
    /\ pc' = "raised"
    /\ error' = "ValueError"
    /\ UNCHANGED <<engine, config, shapes, sorted_shapes, shape_index, spaces,
                   placements, bins, solution, gene_pos, fitness, first_result,
                   outer_vars>>
    /\ UNCHANGED optimizer_vars

\* line 71: population = new_population, and the next round of the for loop
OptimizerReplace ==
    /\ engine = "optimizer"
    /\ pc = "breeding"
    /\ PopulationComplete
    /\ population' = new_population
    /\ generation' = generation + 1
    /\ pc' = "generation"
    /\ UNCHANGED <<engine, config, shapes, sorted_shapes, shape_index, spaces,
                   placements, bins, solution, gene_pos, fitness, error, first_result,
                   outer_vars>>
    /\ UNCHANGED <<tasks, results, fitness_scores, current_best_fitness, best_solution,
                   best_fitness, best_bin_count, new_population>>

\* line 77: return self.create_bins_from_solution(best_solution)
OptimizerReturn ==
    /\ engine = "optimizer"
    /\ pc = "generation"
    /\ generation >= config.generations
    /\ bins' = create_bins_from_solution(best_solution[1], shapes, config)
    /\ pc' = "done"
    /\ UNCHANGED <<engine, config, shapes, sorted_shapes, shape_index, spaces,
                   placements, solution, gene_pos, fitness, error, first_result,
                   outer_vars>>
    /\ UNCHANGED optimizer_vars

----------------------------------------------------------------------------
(* RectNester.nest (lines 17-70) *)

\* lines 18-38: the packer is built, fed and run; bins = []
AdapterPack ==
    /\ engine = "rect"
    /\ pc = "ready"
    /\ packer' \in PackerOutcomes(shapes, config)
    /\ abin_index' = 0
    /\ bins' = <<>>
    /\ pc' = "packing"
    /\ UNCHANGED <<engine, config, shapes, sorted_shapes, shape_index, spaces,
                   placements, solution, gene_pos, fitness, error, first_result>>
    /\ UNCHANGED <<optimizer_vars, unpacked_shapes, batch_vars>>

AdapterLooping ==
    /\ engine = "rect"
    /\ pc = "packing"
    /\ abin_index < Len(packer)

\* lines 40-41: if not abin: continue
AdapterSkipEmpty ==
    /\ AdapterLooping
    /\ packer[abin_index + 1] = <<>>
    /\ abin_index' = abin_index + 1
    /\ UNCHANGED <<engine, config, shapes, pc, sorted_shapes, shape_index, spaces,
                   placements, bins, solution, gene_pos, fitness, error, first_result>>
    /\ UNCHANGED <<optimizer_vars, packer, unpacked_shapes, batch_vars>>

\* lines 42-59: the bin's rectangles become the placements of a new Bin
AdapterConvert ==
    /\ AdapterLooping
    /\ packer[abin_index + 1] # <<>>
    /\ bins' = Append(bins, ConvertBin(packer[abin_index + 1], config))
    /\ abin_index' = abin_index + 1
    /\ UNCHANGED <<engine, config, shapes, pc, sorted_shapes, shape_index, spaces,
                   placements, solution, gene_pos, fitness, error, first_result>>
    /\ UNCHANGED <<optimizer_vars, packer, unpacked_shapes, batch_vars>>

\* lines 61-70: the counts differ, the ids left out are logged, bins are returned
AdapterReportUnpacked ==
    /\ engine = "rect"
    /\ pc = "packing"
    /\ abin_index = Len(packer)
    /\ Len(shapes) # PackedCount(bins)
    /\ unpacked_shapes' = Some(Unpacked(shapes, bins))
    /\ pc' = "done"
    /\ UNCHANGED <<engine, config, shapes, sorted_shapes, shape_index, spaces,
                   placements, bins, solution, gene_pos, fitness, error, first_result>>
    /\ UNCHANGED <<optimizer_vars, packer, abin_index, batch_vars>>

\* lines 61 and 70: the counts agree, bins are returned
AdapterReturn ==
    /\ engine = "rect"
    /\ pc = "packing"
    /\ abin_index = Len(packer)
    /\ Len(shapes) = PackedCount(bins)
    /\ pc' = "done"
    /\ UNCHANGED <<engine, config, shapes, sorted_shapes, shape_index, spaces,
                   placements, bins, solution, gene_pos, fitness, error, first_result>>
    /\ UNCHANGED <<optimizer_vars, adapter_vars, batch_vars>>

----------------------------------------------------------------------------
(* process_parts (core.py lines 43-80), one part per step *)

\* lines 46-52: all_shapes = [], error_summary with four empty lists
BatchStart ==
    /\ engine = "batch"
    /\ pc = "ready"
    /\ all_shapes' = <<>>
    /\ error_summary' = EmptySummary
    /\ part_index' = 0
    /\ pc' = "processing"
    /\ UNCHANGED <<engine, config, shapes, sorted_shapes, shape_index, spaces,
                   placements, bins, solution, gene_pos, fitness, error, first_result>>
    /\ UNCHANGED <<optimizer_vars, adapter_vars, parts, margin>>

BatchLooping ==
    /\ engine = "batch"
    /\ pc = "processing"
    /\ part_index < Len(parts)

\* the call of line 56 for the current part
CurrentExtraction ==
    extract_boundary_from_dxf(parts[part_index + 1].file, margin)

\* lines 56-72: extract_boundary_from_dxf returned
PartExtracted ==
    /\ BatchLooping
    /\ CurrentExtraction.raises = ""
    /\ LET extraction == CurrentExtraction
           part == parts[part_index + 1]
       IN  IF extraction.rectangle = None
           THEN /\ error_summary' =
                       [error_summary EXCEPT !.no_valid_entities = Append(@, part_index)]
                /\ UNCHANGED all_shapes
           ELSE /\ all_shapes' =
                       all_shapes \o Copies(Shape(part_index, extraction.rectangle[1]),
                                            part.quantity)
                /\ error_summary' =
                       [error_summary EXCEPT !.processing_errors =
                           @ \o [k \in 1..Len(extraction.errors) |->
                                    <<part_index, extraction.errors[k]>>]]
    /\ part_index' = part_index + 1
    /\ UNCHANGED <<engine, config, shapes, pc, sorted_shapes, shape_index, spaces,
                   placements, bins, solution, gene_pos, fitness, error, first_result>>
    /\ UNCHANGED <<optimizer_vars, adapter_vars, parts, margin>>

\* lines 73-76: except ezdxf.DXFStructureError
PartStructureError ==
    /\ BatchLooping
    /\ CurrentExtraction.raises = "DXFStructureError"
    /\ error_summary' =
           [error_summary EXCEPT !.dxf_structure_error = Append(@, part_index)]
    /\ part_index' = part_index + 1
    /\ UNCHANGED <<engine, config, shapes, pc, sorted_shapes, shape_index, spaces,
                   placements, bins, solution, gene_pos, fitness, error, first_result>>
    /\ UNCHANGED <<optimizer_vars, adapter_vars, parts, margin, all_shapes>>

\* lines 77-78: except FileNotFoundError
PartFileNotFound ==
    /\ BatchLooping
    /\ CurrentExtraction.raises = "FileNotFoundError"
    /\ error_summary' =
           [error_summary EXCEPT !.file_not_found = Append(@, part_index)]
    /\ part_index' = part_index + 1
    /\ UNCHANGED <<engine, config, shapes, pc, sorted_shapes, shape_index, spaces,
                   placements, bins, solution, gene_pos, fitness, error, first_result>>
    /\ UNCHANGED <<optimizer_vars, adapter_vars, parts, margin, all_shapes>>

\* lines 55-78: an exception that neither except clause names leaves process_parts
PartRaise ==
    /\ BatchLooping
    /\ CurrentExtraction.raises \notin {"", "DXFStructureError", "FileNotFoundError"}
    /\ error' = CurrentExtraction.raises
    /\ pc' = "raised"
    /\ UNCHANGED <<engine, config, shapes, sorted_shapes, shape_index, spaces,
                   placements, bins, solution, gene_pos, fitness, first_result>>
    /\ UNCHANGED <<optimizer_vars, outer_vars>>

\* line 80: return all_shapes, error_summary
BatchReturn ==
    /\ engine = "batch"
    /\ pc = "processing"
    /\ part_index = Len(parts)
    /\ pc' = "done"
    /\ UNCHANGED <<engine, config, shapes, sorted_shapes, shape_index, spaces,
                   placements, bins, solution, gene_pos, fitness, error, first_result>>
    /\ UNCHANGED <<optimizer_vars, outer_vars>>

----------------------------------------------------------------------------
(* a second call of nest(shapes) with the same configuration: nest keeps its *)
(* working data in locals, so the call starts from the state of the first    *)

\* the rectangles of the lists that nest is called on a second time
RepeatedRects ==
    {Rectangle(1, 2), Rectangle(2, 2), Rectangle(1, 3), Rectangle(6, 6)}

NestAgain ==
    /\ engine \in {"guillotine", "skyline"}
    /\ pc = "done"
    /\ first_result = None
    /\ \A k \in 1..Len(shapes) : shapes[k] \in RepeatedRects
    /\ first_result' = Some(bins)
    /\ pc' = "ready"
    /\ sorted_shapes' = <<>>
    /\ shape_index' = 0
    /\ spaces' = <<>>
    /\ placements' = <<>>
    /\ bins' = <<>>
    /\ UNCHANGED <<engine, config, shapes, solution, gene_pos, fitness, error>>
    /\ UNCHANGED <<optimizer_vars, outer_vars>>

----------------------------------------------------------------------------

----------------------------------------------------------------------------
(* SimpleNester.nest of src/nesters/simple.py, one shape per step *)

\* lines 19-21
GridSort ==
    /\ engine = "grid"
    /\ pc = "ready"
    /\ sorted_shapes' = sort_shapes(Enumerate(shapes), config.sort_method)
    /\ pc' = "packing"
    /\ UNCHANGED <<engine, config, shapes, shape_index, spaces, placements, bins,
                   solution, gene_pos, fitness, error>>
    /\ UNCHANGED other_vars

\* lines 23-46: the next shape is searched a place, in the bins and then in a
\* new bin; the AttributeError of line 109 leaves nest
GridShape ==
    /\ engine = "grid"
    /\ pc = "packing"
    /\ sorted_shapes # <<>>
    /\ LET iteration == GridIteration(Head(sorted_shapes), bins, config)
       IN  IF iteration.raised
           THEN /\ pc' = "raised"
                /\ error' = "AttributeError"
                /\ UNCHANGED <<sorted_shapes, bins>>
           ELSE /\ bins' = iteration.bins
                /\ sorted_shapes' = Tail(sorted_shapes)
                /\ UNCHANGED <<pc, error>>
    /\ UNCHANGED <<engine, config, shapes, shape_index, spaces, placements,
                   solution, gene_pos, fitness>>
    /\ UNCHANGED other_vars

\* line 48: return bins
GridReturn ==
    /\ engine = "grid"
    /\ pc = "packing"
    /\ sorted_shapes = <<>>
    /\ pc' = "done"
    /\ UNCHANGED <<engine, config, shapes, sorted_shapes, shape_index, spaces,
                   placements, bins, solution, gene_pos, fitness, error>>
    /\ UNCHANGED other_vars

----------------------------------------------------------------------------
(* RectNester.nest of the bom_packer package (lines 19-61) *)

\* lines 20-36: the packer is built, fed and run; bins = []
PipelinePack ==
    /\ engine = "pipeline"
    /\ pc = "ready"
    /\ packer' \in PackerOutcomes(shapes, config)
    /\ abin_index' = 0
    /\ bins' = <<>>
    /\ pc' = "packing"
    /\ UNCHANGED <<engine, config, shapes, sorted_shapes, shape_index, spaces,
                   placements, solution, gene_pos, fitness, error, first_result>>
    /\ UNCHANGED <<optimizer_vars, unpacked_shapes, batch_vars>>

PipelineLooping ==
    /\ engine = "pipeline"
    /\ pc = "packing"
    /\ abin_index < Len(packer)

\* lines 38-39: if not abin: continue
PipelineSkipEmpty ==
    /\ PipelineLooping
    /\ packer[abin_index + 1] = <<>>
    /\ abin_index' = abin_index + 1
    /\ UNCHANGED <<engine, config, shapes, pc, sorted_shapes, shape_index, spaces,
                   placements, bins, solution, gene_pos, fitness, error, first_result>>
    /\ UNCHANGED <<optimizer_vars, packer, unpacked_shapes, batch_vars>>

\* lines 40-50: the bin's rectangles become the placements of a new Bin, unless
\* a Placement call raises and the TypeError leaves nest
PipelineConvert ==
    /\ PipelineLooping
    /\ packer[abin_index + 1] # <<>>
    /\ LET converted == PipelineConvertFrom(Bin(config.bin_width, config.bin_height),
                                            packer[abin_index + 1], shapes)
       IN  IF converted.raised
           THEN /\ pc' = "raised"
                /\ error' = "TypeError"
                /\ UNCHANGED <<bins, abin_index>>
           ELSE /\ bins' = Append(bins, converted.bin)
                /\ abin_index' = abin_index + 1
                /\ UNCHANGED <<pc, error>>
    /\ UNCHANGED <<engine, config, shapes, sorted_shapes, shape_index, spaces,
                   placements, solution, gene_pos, fitness, first_result>>
    /\ UNCHANGED <<optimizer_vars, packer, unpacked_shapes, batch_vars>>

\* lines 52-61: the names left out are logged when the counts differ, and the
\* bins are returned
PipelineReturn ==
    /\ engine = "pipeline"
    /\ pc = "packing"
    /\ abin_index = Len(packer)
    /\ unpacked_shapes' =
          IF Len(shapes) # PackedCount(bins)
          THEN Some((0..(Len(shapes) - 1)) \ PlacedPartNames(bins))
          ELSE unpacked_shapes
    /\ pc' = "done"
    /\ UNCHANGED <<engine, config, shapes, sorted_shapes, shape_index, spaces,
                   placements, bins, solution, gene_pos, fitness, error, first_result>>
    /\ UNCHANGED <<optimizer_vars, packer, abin_index, batch_vars>>

Next ==
    \/ PipelinePack
    \/ PipelineSkipEmpty
    \/ PipelineConvert
    \/ PipelineReturn
    \/ GridSort
    \/ GridShape
    \/ GridReturn
    \/ GuillotineSort
    \/ GuillotineRaise
    \/ GuillotinePlace
    \/ GuillotineNewBin
    \/ GuillotineUnable
    \/ GuillotineCreateBins
    \/ GuillotineCreateBinsRaise
    \/ SkylineSort
    \/ SkylineRaise
    \/ SkylinePlace
    \/ SkylineNewBin
    \/ SkylineUnable
    \/ SkylineReturn
    \/ GeneticStart
    \/ GeneticPlace
    \/ GeneticOpenBin
    \/ GeneticFitness
    \/ NestAgain
    \/ OptimizerStart
    \/ OptimizerMapFitness
    \/ WorkerFitness
    \/ OptimizerCollect
    \/ OptimizerBreed
    \/ OptimizerBreedRaise
    \/ OptimizerReplace
    \/ OptimizerReturn
    \/ AdapterPack
    \/ AdapterSkipEmpty
    \/ AdapterConvert
    \/ AdapterReportUnpacked
    \/ AdapterReturn
    \/ BatchStart
    \/ PartExtracted
    \/ PartStructureError
    \/ PartFileNotFound
    \/ PartRaise
    \/ BatchReturn

Spec ==
    Init /\ [][Next]_vars

----------------------------------------------------------------------------
(* what the properties speak of *)

\* open-rectangle intersection: rectangles that only share an edge do not overlap
RectsOverlap(a, b) ==
    /\ a.x < b.x + b.width
    /\ b.x < a.x + a.width
    /\ a.y < b.y + b.height
    /\ b.y < a.y + a.height

NoOverlapIn(bs) ==
    \A b \in 1..Len(bs) :
        \A i, j \in 1..Len(bs[b].placements) :
            i < j => ~RectsOverlap(bs[b].placements[i], bs[b].placements[j])

ContainedIn(p, bin) ==
    /\ 0 <= p.x
    /\ 0 <= p.y
    /\ p.x + p.width <= bin.width
    /\ p.y + p.height <= bin.height

AllContained(bs) ==
    \A b \in 1..Len(bs) :
        \A i \in 1..Len(bs[b].placements) : ContainedIn(bs[b].placements[i], bs[b])

\* the shape fits an empty bin in an allowed orientation
FitsEmptyBin(shape, cfg) ==
    \/ shape.width <= cfg.bin_width /\ shape.height <= cfg.bin_height
    \/ /\ cfg.allow_flip
       /\ shape.height <= cfg.bin_width
       /\ shape.width <= cfg.bin_height

\* how many placements of the bins carry shape_index i
TimesPlaced(bs, i) ==
    Cardinality({<<b, k>> \in (1..Len(bs)) \X (1..Len(shapes)) :
                    /\ k <= Len(bs[b].placements)
                    /\ bs[b].placements[k].shape_index = i})

Returned(e) ==
    engine = e /\ pc = "done"

----------------------------------------------------------------------------
(* the properties *)

\* C1: guillotine packer, valid input: no two placements of one returned bin
\* overlap (rectangles sharing only an edge are allowed), x being the bin-local x
\* create_bins produced.
C1_GuillotineNoOverlap ==
    (Returned("guillotine") /\ ValidRun) => NoOverlapIn(bins)

\* a returned bin that holds three placements
C1_Witness ==
    /\ Returned("guillotine")
    /\ ValidRun
    /\ \E b \in 1..Len(bins) : Len(bins[b].placements) >= 3

\* C2: skyline packer, valid input: after any number of commits and skyline
\* updates no two placements committed to the same bin overlap.
C2_SkylineNoOverlap ==
    (engine = "skyline" /\ ValidRun) => NoOverlapIn(bins)

\* a bin with three committed placements, reached with look-ahead on
C2_Witness ==
    /\ engine = "skyline"
    /\ ValidRun
    /\ config.look_ahead > 0
    /\ \E b \in 1..Len(bins) : Len(bins[b].placements) >= 3

\* C3: guillotine packer (returned bins, bin-local x) and skyline packer (every
\* state), valid input: every placement lies inside its bin:
\* 0 <= x, 0 <= y, x + width <= bin.width, y + height <= bin.height.
C3_Containment ==
    /\ (Returned("guillotine") /\ ValidRun) => AllContained(bins)
    /\ (engine = "skyline" /\ ValidRun) => AllContained(bins)

\* a returned guillotine bin list whose second bin holds a placement that reaches
\* the bin's right edge
C3_Witness ==
    /\ Returned("guillotine")
    /\ ValidRun
    /\ Len(bins) >= 2
    /\ \E i \in 1..Len(bins[2].placements) :
           bins[2].placements[i].x + bins[2].placements[i].width = bins[2].width

\* C4: genetic decoder, valid input: every placement create_bins_from_solution
\* makes, the one put at (0, 0) of a newly opened bin included, satisfies
\* x + width <= bin.width and y + height <= bin.height.
C4_GeneticContainment ==
    (engine = "genetic" /\ ValidRun) =>
        \A b \in 1..Len(bins) :
            \A i \in 1..Len(bins[b].placements) :
                /\ bins[b].placements[i].x + bins[b].placements[i].width
                       <= bins[b].width
                /\ bins[b].placements[i].y + bins[b].placements[i].height
                       <= bins[b].height

\* C5: skyline packer, valid input, on return: every input index is the shape_index
\* of exactly one placement when its shape fits an empty bin in an allowed
\* orientation, and of none when it does not.
C5_SkylineConservation ==
    (Returned("skyline") /\ ValidRun) =>
        \A i \in 0..(Len(shapes) - 1) :
            TimesPlaced(bins, i) = IF FitsEmptyBin(shapes[i + 1], config) THEN 1 ELSE 0

\* a return with three shapes, one dropped and two placed
C5_Witness ==
    /\ Returned("skyline")
    /\ ValidRun
    /\ Len(shapes) = 3
    /\ \E i \in 0..2 : TimesPlaced(bins, i) = 0
    /\ Cardinality({i \in 0..2 : TimesPlaced(bins, i) = 1}) = 2

\* C6: guillotine packer, valid input, on return: the shape_index of every
\* placement is the input position of the rectangle it places:
\* {p.width, p.height} = {shapes[p.shape_index].width, shapes[p.shape_index].height}.
C6_ShapeIndexIsInputPosition ==
    (Returned("guillotine") /\ ValidRun) =>
        \A b \in 1..Len(bins) :
            \A i \in 1..Len(bins[b].placements) :
                LET p == bins[b].placements[i]
                IN  /\ p.shape_index \in 0..(Len(shapes) - 1)
                    /\ {p.width, p.height} = {shapes[p.shape_index + 1].width,
                                              shapes[p.shape_index + 1].height}

\* a run of the guillotine or the skyline packer on valid input
PackerRun ==
    engine \in {"guillotine", "skyline"} /\ ValidRun

\* the (index, shape) pairs in the order nest packs them; the guillotine packer
\* numbers the shapes after sorting, the skyline packer before
PackingOrder ==
    IF engine = "guillotine"
    THEN Enumerate(sort_shapes(shapes, config.sort_method))
    ELSE sort_shapes(Enumerate(shapes), config.sort_method)

\* an upper bound on the steps nest still takes: the shapes not yet visited, the
\* return, and the sort while it is still to come
StepsLeft ==
    CASE pc = "ready" -> Len(shapes) + 2
      [] pc = "packing" /\ engine = "guillotine" -> Len(sorted_shapes) - shape_index + 1
      [] pc = "packing" -> Len(sorted_shapes) + 1
      [] OTHER -> 0

\* C7: guillotine and skyline packers, valid input: nest never raises; it does
\* not loop for ever (every step of a call lowers the natural number StepsLeft, so it
\* takes at most Len(shapes) + 2 steps); and on return every shape of the packing
\* order that fits an empty bin is placed exactly once and every shape that does
\* not is skipped, also when shapes that do not fit came earlier in the order.
C7_PlacementFailureSkipped ==
    /\ [](PackerRun => pc # "raised")
    /\ []((PackerRun /\ pc = "done") =>
            \A k \in 1..Len(PackingOrder) :
                TimesPlaced(bins, PackingOrder[k].index)
                    = IF FitsEmptyBin(PackingOrder[k], config) THEN 1 ELSE 0)
    /\ [][(PackerRun /\ pc # "done") => (StepsLeft' < StepsLeft /\ StepsLeft' >= 0)]_vars

\* a return of the guillotine packer where the first shape of the packing order
\* fits no empty bin and a later one was placed
C7_Witness ==
    /\ Returned("guillotine")
    /\ ValidRun
    /\ Len(PackingOrder) >= 2
    /\ ~FitsEmptyBin(PackingOrder[1], config)
    /\ \E k \in 2..Len(PackingOrder) :
           /\ FitsEmptyBin(PackingOrder[k], config)
           /\ TimesPlaced(bins, PackingOrder[k].index) = 1

\* C8: guillotine and skyline packers: with an invalid configuration (a sheet
\* side <= 0, a rectangle side <= 0, rotation_steps = 0) nest never returns a bin
\* list, and when it raises nothing has been packed yet.
C8_InvalidConfigRejected ==
    (engine \in {"guillotine", "skyline"} /\ ~ValidRun) =>
        /\ pc # "done"
        /\ pc = "raised" => (placements = <<>> /\ bins = <<>>)

\* utilization of a bin in (0, 1]: 0 < used area <= bin area
UtilizationInRange(bin) ==
    /\ 0 < calculate_used_area(bin)
    /\ calculate_used_area(bin) <= bin.width * bin.height

\* C9: genetic decoder and fitness, every shape list: every decoded bin holds at
\* least one placement and has utilization in (0, 1], and the fitness
\* used_area / total_area is in (0, 1].
C9_GeneticBinsAndFitness ==
    Returned("genetic") =>
        /\ \A b \in 1..Len(bins) :
               bins[b].placements # <<>> /\ UtilizationInRange(bins[b])
        /\ 0 < fitness[1]
        /\ fitness[1] <= fitness[2]

\* C10: guillotine packer, valid input: no bin of the returned list is empty.
C10_GuillotineNoEmptyBin ==
    (Returned("guillotine") /\ ValidRun) =>
        \A b \in 1..Len(bins) : bins[b].placements # <<>>

\* a return after a shape failed first and later shapes were placed, with a
\* free-space entry left over for a bin index no placement uses
C10_Witness ==
    /\ Returned("guillotine")
    /\ ValidRun
    /\ Len(sorted_shapes) >= 2
    /\ ~FitsEmptyBin(sorted_shapes[1], config)
    /\ Len(bins) >= 1
    /\ Len(spaces) > Len(bins)

IsStableDescendingSort(out, inp, method) ==
    /\ Len(out) = Len(inp)
    /\ \E pos \in [1..Len(inp) -> 1..Len(inp)] :
           /\ \A k, l \in 1..Len(inp) : k # l => pos[k] # pos[l]
           /\ \A k \in 1..Len(inp) : out[k] = inp[pos[k]]
           /\ \A k, l \in 1..Len(inp) :
                  k < l =>
                      /\ SortKey(out[k], method) >= SortKey(out[l], method)
                      /\ SortKey(out[k], method) = SortKey(out[l], method)
                             => pos[k] < pos[l]

\* sort_shapes has just returned: nothing of its result has been packed yet
JustSorted ==
    /\ engine \in {"guillotine", "skyline"}
    /\ pc = "packing"
    /\ shape_index = 0
    /\ Len(sorted_shapes) = Len(shapes)

\* C14: sort_shapes of both packers, each of the four sort methods: the result is
\* a permutation of the input in non-increasing key order (area = w*h, height,
\* width, perimeter = w+h) with rectangles of equal key in their input order (for
\* the skyline packer the (index, shape) pairs, so by increasing index), and the
\* input sequence is never modified.
C14_SortShapes ==
    /\ [](JustSorted =>
            IF engine = "guillotine"
            THEN IsStableDescendingSort(sorted_shapes, shapes, config.sort_method)
            ELSE /\ IsStableDescendingSort(sorted_shapes, Enumerate(shapes),
                                           config.sort_method)
                 /\ \A k, l \in 1..Len(sorted_shapes) :
                        (/\ k < l
                         /\ SortKey(sorted_shapes[k], config.sort_method)
                              = SortKey(sorted_shapes[l], config.sort_method))
                            => sorted_shapes[k].index < sorted_shapes[l].index)
    /\ [][shapes' = shapes]_vars

\* a sorted list whose input was out of order and held different rectangles of equal key
C14_Witness ==
    /\ JustSorted
    /\ sorted_shapes # IF engine = "guillotine" THEN shapes ELSE Enumerate(shapes)
    /\ \E k, l \in 1..Len(shapes) :
           /\ k < l
           /\ shapes[k] # shapes[l]
           /\ SortKey(shapes[k], config.sort_method) = SortKey(shapes[l], config.sort_method)
           /\ \E j \in 1..Len(shapes) :
                  SortKey(shapes[j], config.sort_method) # SortKey(shapes[k], config.sort_method)

\* the step packs a shape that fits no free space of the bins opened so far
NoSpaceTakesCurrent ==
    /\ GuillotineLooping
    /\ ValidRun
    /\ SearchSpaces(sorted_shapes[shape_index + 1], spaces, config) = None

\* the step opens exactly one bin, and the current shape is its only placement, at
\* (0, 0) of the bin create_bins builds from the placements
OpensOneBinForCurrent ==
    /\ Len(spaces') = Len(spaces) + 1
    /\ Len(placements') = Len(placements) + 1
    /\ LET bs == create_bins(placements', config)
           last == bs[Len(bs)].placements
       IN  /\ Len(bs) = Len(create_bins(placements, config)) + 1
           /\ Len(bs) = Len(spaces')
           /\ Len(last) = 1
           /\ last[1].shape_index = shape_index
           /\ last[1].x = 0
           /\ last[1].y = 0
           /\ {last[1].width, last[1].height}
                  = {sorted_shapes[shape_index + 1].width,
                     sorted_shapes[shape_index + 1].height}

\* 10 x 10, [6x6, 6x6], bottom_left: two bins, one placement each, at (0, 0)
TwoSixesResult ==
    (/\ Returned("guillotine")
     /\ config.bin_width = 10
     /\ shapes = <<Rectangle(6, 6), Rectangle(6, 6)>>) =>
        /\ Len(bins) = 2
        /\ \A b \in 1..2 :
               /\ Len(bins[b].placements) = 1
               /\ bins[b].placements[1].x = 0
               /\ bins[b].placements[1].y = 0

\* C15 as stated: guillotine packer: whenever a shape fits no free space of any
\* existing bin, the step opens exactly one new bin and the shape becomes that
\* bin's placement at bin-local (0, 0); and 10 x 10 with [6x6, 6x6] under
\* bottom_left gives two bins with one placement each at (0, 0).
C15_NewBinRuleAsStated ==
    /\ [][NoSpaceTakesCurrent => OpensOneBinForCurrent]_vars
    /\ []TwoSixesResult

\* C15 amended: guillotine packer: whenever a shape fits no free space of any
\* existing bin and fits an empty bin in an allowed orientation, the step opens
\* exactly one new bin and the shape becomes that bin's placement at bin-local
\* (0, 0); a shape that fits no empty bin gets no placement; and 10 x 10 with
\* [6x6, 6x6] under bottom_left gives two bins with one placement each at (0, 0).
C15_NewBinRule ==
    /\ [][NoSpaceTakesCurrent =>
            IF FitsEmptyBin(sorted_shapes[shape_index + 1], config)
            THEN OpensOneBinForCurrent
            ELSE placements' = placements]_vars
    /\ []TwoSixesResult

\* the second 6 x 6 has been put into a bin of its own
C15_Witness ==
    /\ Returned("guillotine")
    /\ config.bin_width = 10
    /\ shapes = <<Rectangle(6, 6), Rectangle(6, 6)>>
    /\ Len(placements) = 2
    /\ placements[2].x = 10

\* C16: skyline packer, bin 10 x 10, four 5 x 5 rectangles, every sort_method,
\* every look_ahead in 0..3, best_fit and the default waste score: nest returns
\* exactly one bin, it holds all four placements, and its utilization is 1.0.
C16_FourFivesTileOneBin ==
    (/\ Returned("skyline")
     /\ config.bin_width = 10
     /\ shapes = <<Rectangle(5, 5), Rectangle(5, 5), Rectangle(5, 5), Rectangle(5, 5)>>) =>
        /\ Len(bins) = 1
        /\ Len(bins[1].placements) = 4
        /\ calculate_used_area(bins[1]) = bins[1].width * bins[1].height

\* the four 5 x 5 packed with look_ahead 3 under the default waste score
C16_Witness ==
    /\ Returned("skyline")
    /\ config.bin_width = 10
    /\ config.look_ahead = 3
    /\ config.placement_strategy # "best_fit"
    /\ Len(shapes) = 4
    /\ Len(bins) = 1
    /\ Len(bins[1].placements) = 4


\* the driver is about to breed one more child (lines 62-69)
Breeding ==
    /\ engine = "optimizer"
    /\ pc = "breeding"
    /\ ~PopulationComplete
    /\ Len(shapes) > 0

\* C12: two runs of GeneticNester.nest from the same driver seed, shapes and
\* configuration hold the same population at every generation. Two such runs
\* are in the same state until a worker's pick differs, and they take the same
\* driver draws: so wherever a child is bred, the child must be the same for
\* every pair of parents the workers' select_parent can return.
C12_SameSeedSamePopulation ==
    Breeding =>
        \A draw \in DriverDraws(Len(shapes), config) :
            \A a1, a2, b1, b2 \in Selectable(fitness_scores) :
                Child(population[a1], population[a2], draw, config)
                    = Child(population[b1], population[b2], draw, config)

\* the driver's step from the scores of a generation to breeding the next
CollectStep ==
    /\ engine = "optimizer"
    /\ pc = "evaluating"
    /\ pc' = "breeding"

\* C13: elitism law. Whatever the workers select and the driver draws, the
\* greatest fitness of generation g+1 is at least that of generation g, and
\* the tracked best_fitness never decreases.
C13_ElitismLaw ==
    [][CollectStep =>
          /\ ~FitnessGreater(best_fitness, best_fitness')
          /\ generation > 0 =>
                ~FitnessGreater(current_best_fitness, current_best_fitness')]_vars

\* a later generation has been scored, and one of its genomes is worse than its best
C13_Witness ==
    /\ engine = "optimizer"
    /\ pc = "breeding"
    /\ generation > 0
    /\ \E k \in 1..Len(fitness_scores) :
          FitnessGreater(current_best_fitness, fitness_scores[k])

\* a run of GeneticNester.nest with population_size = 1 and generations = 1
OneGenomeOneGeneration ==
    /\ engine = "optimizer"
    /\ config.population_size = 1
    /\ config.generations = 1
    /\ Len(shapes) > 0

\* the shapes in input order, unrotated and unflipped
InputOrderGenome ==
    [i \in 1..Len(shapes) |-> [shape_index |-> i - 1, rotation |-> 0, flip |-> FALSE]]

\* C17: with population_size = 1 and generations = 1, for every non-empty shape
\* list nest returns create_bins_from_solution of the genome [(i, 0, False) for
\* i in 0..n-1], and no child is bred: the single genome is never crossed over
\* or mutated.
C17_SingleGenomeDecoded ==
    /\ [](OneGenomeOneGeneration /\ pc = "done" =>
             bins = create_bins_from_solution(InputOrderGenome, shapes, config))
    /\ [](OneGenomeOneGeneration /\ population # <<>> =>
             /\ population = <<InputOrderGenome>>
             /\ pc # "raised")
    /\ [][OneGenomeOneGeneration => ~(Breeding /\ new_population' # new_population)]_vars

\* such a run has returned, and flipping would have decoded to other bins
C17_Witness ==
    /\ OneGenomeOneGeneration
    /\ pc = "done"
    /\ config.allow_flip
    /\ \E k \in 1..Len(shapes) : shapes[k].width # shapes[k].height
    /\ Len(bins) > 1

\* a pool worker returns the value of one task
WorkerStep ==
    /\ engine = "optimizer"
    /\ tasks # {}
    /\ tasks' # tasks

\* C20: generation barrier. While the next population is bred, every genome of
\* the current population has its fitness with the driver and no task is out;
\* while a generation is being scored its population is complete and it is
\* the population the tasks were cut from; a worker's step changes nothing of
\* the driver's population, scores or best-so-far record.
C20_GenerationBarrier ==
    /\ [](engine = "optimizer" /\ pc = "breeding" =>
             /\ tasks = {}
             /\ Len(fitness_scores) = Len(population)
             /\ \A k \in 1..Len(population) :
                   fitness_scores[k] = calculate_fitness(population[k], shapes, config))
    /\ [](engine = "optimizer" /\ pc = "evaluating" =>
             /\ Len(population) = config.population_size
             /\ generation > 0 => population = new_population
             /\ \A task \in tasks : task.solution = population[task.index]
             /\ \A k \in 1..Len(population) :
                   \/ results[k] = None /\ \E task \in tasks : task.index = k
                   \/ /\ results[k] = Some(calculate_fitness(population[k], shapes, config))
                      /\ \A task \in tasks : task.index # k)
    /\ [][WorkerStep =>
             UNCHANGED <<population, fitness_scores, current_best_fitness, best_solution,
                         best_fitness, best_bin_count, new_population, generation>>]_vars

\* a later generation of two genomes that differ is half scored
C20_Witness ==
    /\ engine = "optimizer"
    /\ pc = "evaluating"
    /\ generation > 0
    /\ Cardinality(tasks) = 1
    /\ Len(population) = 2
    /\ population[1] # population[2]

\* the ids of the rectangles the packer holds
PackedIds ==
    {packer[b][k].rid :
        <<b, k>> \in {<<b, k>> \in (1..Len(packer)) \X (1..Len(shapes)) :
                         k <= Len(packer[b])}}

\* C18: whatever subset of the ids the external packer packs, RectNester.nest
\* does not raise; the returned bins hold exactly one placement per packed id,
\* with shape_index that id, and none for any other id; no returned bin is
\* empty; and when fewer placements than shapes come back, the set reported
\* as unpacked is the input index set minus the packed ids (nothing is
\* reported when the counts agree).
C18_AdapterReportsUnpacked ==
    /\ engine = "rect" => pc # "raised"
    /\ Returned("rect") =>
          /\ \A i \in 0..(Len(shapes) - 1) :
                TimesPlaced(bins, i) = IF i \in PackedIds THEN 1 ELSE 0
          /\ PackedCount(bins) = Cardinality(PackedIds)
          /\ \A b \in 1..Len(bins) : bins[b].placements # <<>>
          /\ unpacked_shapes =
                IF Cardinality(PackedIds) # Len(shapes)
                THEN Some((0..(Len(shapes) - 1)) \ PackedIds)
                ELSE None

\* nest returned; the packer had left an id out and held an empty bin
C18_Witness ==
    /\ Returned("rect")
    /\ PackedIds # {}
    /\ unpacked_shapes # None
    /\ unpacked_shapes[1] # {}
    /\ \E b \in 1..Len(packer) : packer[b] = <<>>

\* the file can be read and one of its entities yields a point
HasGeometry(file) ==
    /\ file.kind = "readable"
    /\ \E k \in 1..Len(file.entities) :
          ~file.entities[k].raises /\ file.entities[k].points # <<>>

\* BOM positions, each successfully extracted part quantity times, in BOM order
RECURSIVE ExpectedParts(_)
ExpectedParts(k) ==
    IF k >= Len(parts) THEN <<>>
    ELSE (IF HasGeometry(parts[k + 1].file)
          THEN [q \in 1..parts[k + 1].quantity |-> k] ELSE <<>>)
             \o ExpectedParts(k + 1)

InSummary(k) ==
    \/ \E j \in 1..Len(error_summary.file_not_found) :
          error_summary.file_not_found[j] = k
    \/ \E j \in 1..Len(error_summary.dxf_structure_error) :
          error_summary.dxf_structure_error[j] = k
    \/ \E j \in 1..Len(error_summary.no_valid_entities) :
          error_summary.no_valid_entities[j] = k

\* C19: process_parts never aborts the batch. Whatever each part's extraction
\* does (success, missing file, malformed file, file without recognized
\* geometry), no exception leaves process_parts; it returns after the last
\* part, with every failed part in error_summary and all_shapes holding
\* part.quantity entries for each successfully extracted part, in BOM order.
C19_BatchNeverAborts ==
    /\ engine = "batch" => pc # "raised"
    /\ Returned("batch") =>
          /\ part_index = Len(parts)
          /\ [k \in 1..Len(all_shapes) |-> all_shapes[k].part] = ExpectedParts(0)
          /\ \A k \in 0..(Len(parts) - 1) :
                ~HasGeometry(parts[k + 1].file) => InSummary(k)

\* how often e occurs in seq
Occurrences(e, seq) ==
    Cardinality({k \in 1..Len(seq) : seq[k] = e})

SameElements(a, b) ==
    /\ Len(a) = Len(b)
    /\ \A k \in 1..Len(a) : Occurrences(a[k], a) = Occurrences(a[k], b)

\* area descending, then y ascending, then x ascending
OrderedSpaces(seq) ==
    \A k \in 1..(Len(seq) - 1) :
        LET a == seq[k]
            b == seq[k + 1]
        IN  \/ a.width * a.height > b.width * b.height
            \/ /\ a.width * a.height = b.width * b.height
               /\ a.y < b.y \/ (a.y = b.y /\ a.x <= b.x)

\* the free spaces a split of space s by a placement of size (pw, ph) leaves
SplitLeftovers(s, pw, ph) ==
    (IF pw < s.width
     THEN <<[x |-> s.x + pw, y |-> s.y, width |-> s.width - pw, height |-> ph,
             rotation |-> 0]>>
     ELSE <<>>)
    \o (IF ph < s.height
        THEN <<[x |-> s.x, y |-> s.y + ph, width |-> pw, height |-> s.height - ph,
                rotation |-> 0]>>
        ELSE <<>>)

\* the guillotine packer commits a placement in this step
GuillotineCommits ==
    /\ engine = "guillotine"
    /\ ValidRun
    /\ Len(placements') = Len(placements) + 1

\* C21: guillotine split. Committing a placement of size (pw, ph) into the free
\* space (x, y, w, h) of a bin removes that space from the bin's list and adds
\* the right space (x+pw, y, w-pw, ph) iff pw < w and the top space
\* (x, y+ph, pw, h-ph) iff ph < h; every other free space of the bin stays, the
\* lists of the other bins are unchanged, and the bin's list is left ordered by
\* area descending, then y ascending, then x ascending.
C21_GuillotineSplit ==
    [][GuillotineCommits =>
          LET placement == placements'[Len(placements')]
              b == (placement.x \div config.bin_width) + 1
              before == IF b <= Len(spaces) THEN spaces[b] ELSE <<FullSpace(config)>>
          IN  /\ Len(spaces') = Max(Len(spaces), b)
              /\ \A c \in 1..Len(spaces) : c # b => spaces'[c] = spaces[c]
              /\ OrderedSpaces(spaces'[b])
              /\ \E i \in 1..Len(before) :
                    /\ before[i].x = placement.x - (b - 1) * config.bin_width
                    /\ before[i].y = placement.y
                    /\ SameElements(spaces'[b],
                           RemoveAt(before, i)
                               \o SplitLeftovers(before[i], placement.width,
                                                 placement.height))]_vars

\* two bins are open, and a split has left a bin both a right and a top space
C21_Witness ==
    /\ engine = "guillotine"
    /\ ValidRun
    /\ pc = "packing"
    /\ Len(spaces) >= 2
    /\ Len(placements) >= 2
    /\ \E b \in 1..Len(spaces) :
          \E i, j \in 1..Len(spaces[b]) :
              /\ spaces[b][i].x > 0 /\ spaces[b][i].y = 0
              /\ spaces[b][j].x = 0 /\ spaces[b][j].y > 0

\* the placements committed to bin b (1-based), with bin-local x
CommittedTo(b) ==
    LET mine == SelectSeq(placements,
                    LAMBDA q : q.x \div config.bin_width = b - 1)
    IN  [k \in 1..Len(mine) |-> [mine[k] EXCEPT !.x = @ % config.bin_width]]

AreaOf(seq) ==
    SumSeq([k \in 1..Len(seq) |-> seq[k].width * seq[k].height])

\* C22: guillotine free-space invariant. After any sequence of placements, in
\* each bin the free spaces are pairwise non-overlapping, none overlaps a
\* placement committed to that bin, each has positive width and height and
\* lies inside the bin, and the free spaces' and the placements' areas
\* together do not exceed the bin's area.
C22_FreeSpaceInvariant ==
    (engine = "guillotine" /\ ValidRun /\ pc = "packing") =>
        \A b \in 1..Len(spaces) :
            LET free == spaces[b]
                used == CommittedTo(b)
                bin == Bin(config.bin_width, config.bin_height)
            IN  /\ \A i, j \in 1..Len(free) : i < j => ~RectsOverlap(free[i], free[j])
                /\ \A i \in 1..Len(free) :
                      /\ free[i].width > 0
                      /\ free[i].height > 0
                      /\ ContainedIn(free[i], bin)
                      /\ \A k \in 1..Len(used) : ~RectsOverlap(free[i], used[k])
                /\ AreaOf(free) + AreaOf(used) <= config.bin_width * config.bin_height

\* a bin with two placements and two free spaces
C22_Witness ==
    /\ engine = "guillotine"
    /\ ValidRun
    /\ pc = "packing"
    /\ \E b \in 1..Len(spaces) : Len(spaces[b]) >= 2 /\ Len(CommittedTo(b)) >= 2

\* the segments start at 0, follow each other without gap, have positive
\* widths, end at the bin's width, and neighbours differ in height
TilesWidth(skyline, width) ==
    /\ skyline # <<>>
    /\ skyline[1].x = 0
    /\ \A k \in 1..Len(skyline) : skyline[k].width > 0
    /\ \A k \in 1..(Len(skyline) - 1) :
          /\ skyline[k + 1].x = skyline[k].x + skyline[k].width
          /\ skyline[k + 1].y # skyline[k].y
    /\ skyline[Len(skyline)].x + skyline[Len(skyline)].width = width

\* lines 97-105: the skylines update_skyline leaves on the copied bin, one per
\* look-ahead shape that finds a place
RECURSIVE LookAheadSkylines(_, _, _)
LookAheadSkylines(temp_bin, look_ahead_shapes, cfg) ==
    IF look_ahead_shapes = <<>> THEN {}
    ELSE LET look_ahead_placement ==
                 find_best_placement_in_bin(Head(look_ahead_shapes), temp_bin, cfg)
         IN  IF look_ahead_placement # None
             THEN LET updated == [temp_bin EXCEPT !.skyline =
                                     update_skyline(@, look_ahead_placement[1])]
                  IN  {updated.skyline}
                          \cup LookAheadSkylines(updated, Tail(look_ahead_shapes), cfg)
             ELSE LookAheadSkylines(temp_bin, Tail(look_ahead_shapes), cfg)

\* lines 93-105: the skylines of one candidate's simulation
CandidateSkylines(placement, bin, look_ahead_shapes, cfg) ==
    LET temp_bin == [bin EXCEPT !.placements = Append(@, placement),
                                !.skyline = update_skyline(@, placement)]
    IN  {temp_bin.skyline} \cup LookAheadSkylines(temp_bin, look_ahead_shapes, cfg)

\* the bins nest searches for the current shape: the existing bins up to the
\* first that offers a placement, and a new bin when none does
BinsSearched ==
    LET found == FirstBinFrom(Head(sorted_shapes), bins, LookAheadShapes, config, 0)
    IN  IF found # None
        THEN {bins[b] : b \in 1..(found[1].bin_index + 1)}
        ELSE {bins[b] : b \in 1..Len(bins)} \cup {NewSkylineBin(config)}

\* every skyline a look-ahead simulation for the current shape produces
SimulatedSkylines ==
    UNION {LET cands == SkylineCandidates(Head(sorted_shapes), bin, Orientations(config))
           IN  UNION {CandidateSkylines(cands[k], bin, LookAheadShapes, config) :
                         k \in 1..Len(cands)} :
              bin \in BinsSearched}

\* C23: skyline tiling invariant. After every update_skyline call, on a bin
\* of nest (a commit) and on the copied bin of a look-ahead simulation, the
\* segments are in strictly ascending x order, the first starts at x = 0,
\* each starts where the one before ends, the widths are positive and sum to
\* the bin's width, and no two neighbours have the same height.
C23_SkylineTiles ==
    (engine = "skyline" /\ ValidRun) =>
        /\ \A b \in 1..Len(bins) : TilesWidth(bins[b].skyline, bins[b].width)
        /\ SkylineLooping =>
              \A skyline \in SimulatedSkylines : TilesWidth(skyline, config.bin_width)

\* a bin's skyline has two segments, and the simulation for the next shape
\* places a look-ahead shape on the copied bin
C23_Witness ==
    /\ engine = "skyline"
    /\ ValidRun
    /\ SkylineLooping
    /\ LookAheadShapes # <<>>
    /\ \E b \in 1..Len(bins) : Len(bins[b].skyline) >= 2
    /\ \E skyline \in SimulatedSkylines : Len(skyline) >= 3

\* the index (from 1) of the segment a candidate starts on: line 87 takes
\* the candidate's x from that segment
StartSegment(placement, bin) ==
    CHOOSE i \in 1..Len(bin.skyline) : bin.skyline[i].x = placement.x

\* C24: skyline default (non-best_fit) score. For every candidate placement
\* of the current shape, starting on segment i of a searched bin,
\* calculate_placement_score returns
\* (placement.y - height of segment i) * placement.width.
C24_DefaultScoreAgainstOwnSegment ==
    (/\ engine = "skyline"
     /\ ValidRun
     /\ SkylineLooping
     /\ config.placement_strategy # "best_fit") =>
        \A bin \in BinsSearched :
            LET cands == SkylineCandidates(Head(sorted_shapes), bin, Orientations(config))
            IN  \A k \in 1..Len(cands) :
                    calculate_placement_score(cands[k], bin, config)
                        = (cands[k].y - bin.skyline[StartSegment(cands[k], bin)].y)
                              * cands[k].width

\* one iteration of the breeding loop (lines 62-69)
BreedStep ==
    /\ engine = "optimizer"
    /\ pc = "breeding"
    /\ pc' = "breeding"

\* line 71: the new population becomes the population
ReplaceStep ==
    /\ engine = "optimizer"
    /\ pc = "breeding"
    /\ pc' = "generation"

InInputOrder(genome, n) ==
    /\ Len(genome) = n
    /\ \A i \in 1..n : genome[i].shape_index = i - 1

\* the driver is at the top of the for loop of line 37, or its pool.map of
\* line 38 is out
GenerationStart ==
    /\ engine = "optimizer"
    /\ pc \in {"generation", "evaluating"}

\* C26: genome invariant. Every genome of the population, of the population
\* being bred, and the stored best has length n and holds shape index i at
\* position i, so each index 0..n-1 exactly once: crossover and mutation
\* change rotation and flip only. The population holds population_size
\* genomes at the start of every generation.
C26_GenomeInvariant ==
    (engine = "optimizer" /\ pc # "ready") =>
        /\ \A k \in 1..Len(population) : InInputOrder(population[k], Len(shapes))
        /\ pc = "breeding" =>
              \A k \in 1..Len(new_population) :
                  InInputOrder(new_population[k], Len(shapes))
        /\ best_solution # None => InInputOrder(best_solution[1], Len(shapes))
        /\ GenerationStart => Len(population) = config.population_size

\* a later generation starts with a genome that crossover put together from
\* two shapes or more and that carries a rotation or a flip
C26_Witness ==
    /\ GenerationStart
    /\ generation > 0
    /\ Len(shapes) >= 2
    /\ Len(population) = 2
    /\ \E i \in 1..Len(shapes) :
          population[2][i].rotation # 0 \/ population[2][i].flip

\* sum of w * h over the input shapes
InputArea ==
    SumSeq([k \in 1..Len(shapes) |-> shapes[k].width * shapes[k].height])

\* len(create_bins_from_solution(genome))
DecodedBinCount(genome) ==
    Len(create_bins_from_solution(genome, shapes, config))

\* the fitness of a decoding into bin_count bins that loses no area
AreaOverBins(bin_count) ==
    <<InputArea, bin_count * config.bin_width * config.bin_height>>

\* the scores of a generation are in and the driver is about to compare their
\* best with the best so far (line 49)
ScoresIn ==
    /\ engine = "optimizer"
    /\ pc = "evaluating"
    /\ MapReturned

\* the second disjunct of line 49 decides: the fitness is not greater, it is
\* equal and the bin count is smaller
TieBreakFires ==
    LET scores == [k \in 1..Len(results) |-> results[k][1]]
        index == current_best_index(scores)
    IN  /\ ~FitnessGreater(scores[index], best_fitness)
        /\ FitnessEqual(scores[index], best_fitness)
        /\ \/ best_bin_count = None
           \/ DecodedBinCount(population[index]) < best_bin_count[1]

\* C27: genetic fitness depends only on the decoded bin count. For every
\* genome calculate_fitness is (sum of w * h over the input shapes) /
\* (decoded bins * bin_width * bin_height); two genomes of a generation have
\* equal fitness exactly when they decode to the same number of bins; and the
\* fewer-bins tie-break of line 49 decides only while best_bin_count is still
\* the initial infinity.
C27_FitnessIsAreaOverBins ==
    /\ (Returned("genetic") /\ ValidRun) => fitness = AreaOverBins(Len(bins))
    /\ (engine = "optimizer" /\ pc = "breeding") =>
          /\ \A k \in 1..Len(population) :
                fitness_scores[k] = AreaOverBins(DecodedBinCount(population[k]))
          /\ Len(shapes) > 0 =>
                \A j, k \in 1..Len(population) :
                    FitnessEqual(fitness_scores[j], fitness_scores[k])
                        <=> DecodedBinCount(population[j]) = DecodedBinCount(population[k])
    /\ (ScoresIn /\ TieBreakFires) => best_bin_count = None

\* a scored generation with two genomes that decode to different numbers of
\* bins, after the best so far has been set by an earlier generation
C27_Witness ==
    /\ engine = "optimizer"
    /\ pc = "breeding"
    /\ generation > 0
    /\ \E j, k \in 1..Len(population) :
          DecodedBinCount(population[j]) < DecodedBinCount(population[k])

\* the (index, shape) pairs a returned shape_index refers to: the adapter gives
\* the packer the input position as rid (rect.py line 33)
SourceOrder ==
    IF engine = "rect" THEN Enumerate(shapes) ELSE PackingOrder

\* the rectangle a placement was made from
SourceRectangle(placement) ==
    LET k == CHOOSE k \in 1..Len(SourceOrder) :
                 SourceOrder[k].index = placement.shape_index
    IN  SourceOrder[k]

\* C28: rotation field consistent with the placed extents. For every placement
\* returned by the guillotine packer, the skyline packer or the adapter,
\* (width, height) is the source rectangle's (w, h) when rotation is 0 or 180
\* and (h, w) when rotation is 90 or 270.
C28_RotationMatchesExtents ==
    (engine \in {"guillotine", "skyline", "rect"} /\ pc = "done" /\ ValidRun) =>
        \A b \in 1..Len(bins) :
            \A i \in 1..Len(bins[b].placements) :
                LET placement == bins[b].placements[i]
                    source == SourceRectangle(placement)
                IN  /\ placement.rotation \in {0, 180} =>
                          /\ placement.width = source.width
                          /\ placement.height = source.height
                    /\ placement.rotation \in {90, 270} =>
                          /\ placement.width = source.height
                          /\ placement.height = source.width

\* every input rectangle fits the sheet in an allowed orientation
AllFitTheSheet ==
    \A k \in 1..Len(shapes) : FitsEmptyBin(shapes[k], config)

\* C29: grid first-fit packer. For every input of positive-size rectangles
\* that fit the sheet, nest returns without raising, the first search of a
\* new bin's single free space included.
C29_GridNestNeverRaises ==
    (engine = "grid" /\ ValidRun /\ AllFitTheSheet) => pc # "raised"

\* the rectangles the packer holds after pack()
PackedRects ==
    {packer[b][k] : <<b, k>> \in {<<b, k>> \in (1..Len(packer)) \X (1..Len(shapes)) :
                                     k <= Len(packer[b])}}

\* the attributes log_nesting_results (core.py lines 92-96) and
\* write_packed_shapes_to_dxf (dxf/io.py lines 75-76) read of a placement
PlacementAttributes ==
    {"x", "y", "width", "height", "rotation", "shape_index"}

\* C30: bom_packer pipeline index linkage. RectNester.nest returns, and for
\* every rectangle the packer packed the returned bins hold a placement that
\* carries x, y, width, height, rotation and shape_index, with shape_index the
\* input position (the rid) of that rectangle, which is what
\* all_shapes[placement.shape_index] is read with.
C30_PipelineIndexLinkage ==
    (engine = "pipeline" /\ ValidRun /\ pc \in {"done", "raised"}) =>
        /\ pc = "done"
        /\ \A rect \in PackedRects :
              \E b \in 1..Len(bins) :
                  \E k \in 1..Len(bins[b].placements) :
                      LET placement == bins[b].placements[k]
                      IN  /\ PlacementAttributes \subseteq DOMAIN placement
                          /\ placement.shape_index = rect.rid
                          /\ placement.x = rect.x
                          /\ placement.y = rect.y

====
